---- MODULE Spec2Model ----
(***************************************************************************)
(* A model of the request routing core of mightydns: the client            *)
(* classifier, the zone manager and the policy handler with its selective  *)
(* override of a base configuration.                                       *)
(***************************************************************************)
EXTENDS Integers, Sequences, FiniteSets, TLC

(***************************************************************************)
(* Bounds of the model.                                                    *)
(***************************************************************************)
\* client addresses are IPBits wide: 0 .. 2^IPBits - 1
IPBits == 3
\* group priorities are drawn from 0 .. MaxPriority
MaxPriority == 2
\* the call depth at which the override walk exhausts the stack
MaxWalkDepth == 10
\* applyOverrides is called up to MaxApplies times on one base document
MaxApplies == 2

VARIABLES
    cGroups,      \* ClientClassifier.Groups: name -> [Sources, Priority]
    compiled,     \* ClientClassifier.compiled: name -> [priority, networks, ips]
    cState,       \* "new", "provisioned" or "failed" (Provision returned an error)
    cIP,          \* the argument of the last ClassifyIP call
    cResult,      \* the group name the last ClassifyIP call returned
    cVia          \* what it matched in that group: "ip", "cidr", or "" for no match

VARIABLES
    zCfg,         \* the zone manager's configuration: [Zones, DefaultUpstream]
    zmgr,         \* the ZoneManager after Provision: [baseZones, DefaultUpstream]
    zState,       \* "new", "provisioned", "failed", "served" after a query, "resolved"
    zQuery,       \* the last query served: [hasQuestion, name, qtype]
    zCtx,         \* the ClientGroupKey value of its request context
    zUp,          \* the upstream targets that answered during it
    zWfail,       \* whether the response writer failed during it
    zOut          \* what ServeDNS did: [ev, err, group]

VARIABLES
    oBase,        \* the base configuration document (PolicyHandler.BaseHandler)
    heap,         \* the maps and slices allocated so far
    oBaseTree,    \* the tree provisionHandler decoded from the base document
    oCopy,        \* a deepCopyMap of that tree
    oOverrides,   \* the overrides of the last applyOverrides call
    oConfig,      \* the tree that call decoded from the base document
    oModified,    \* the tree its walk returned
    oResult,      \* the document it returned
    oState,       \* "new", "ready", "applied", or "crashed" (the walk overflowed the stack)
    oCalls        \* the number of applyOverrides calls made

VARIABLES
    pCfg,         \* PolicyHandler: BaseHandler, ClientGroups, Policies
    pState,       \* "new", "provisioned", "failed", "crashed" or "served"
    pCompiled,    \* the compiled groups of p.classifier
    pInstances,   \* the handler instances LoadModule has made, in order
    pBaseHandler, \* p.baseHandler: an index into pInstances, 0 for nil
    pPolicyTrees, \* p.policyTrees: client group -> index into pInstances
    pIP,          \* the client address of the query
    pQuery,       \* the query
    pUp,          \* the upstream targets that answer
    pWfail,       \* whether writing the reply fails
    pOut,         \* what ServeDNS did with the query
    pCleanup      \* what Cleanup did: the instances cleaned up, in call order

VARIABLES
    lCurrent,     \* currentConfig: an index into lGens, 0 for nil
    lGens,        \* the generations startConfig was called for, in order
    lTrace,       \* what the lifecycle did to modules, apps and listeners, in order
    lLast         \* the last Load or Stop call and its outcome

VARIABLES
    uCfg,         \* UpstreamResolver: Upstreams, Timeout, Protocol
    uState,       \* "new", "provisioned", "failed" or "served"
    uRes,         \* the resolver as Provision left it
    uReq,         \* the request
    uOutcome,     \* what the exchange with each target returns
    uWfail,       \* whether writing the reply fails
    uOut          \* what ServeDNS did with the request

VARIABLES
    sServer,      \* a DNSServer: Listen, Protocol, Handler, handler, servers
    sRoot,        \* its root handler as Provision left it
    sState,       \* "new", "provisioned", "failed", "started" or "unstarted"
    sLog          \* the messages ServeDNS was called with and what it did, in order

VARIABLES
    modules,      \* the registry: module id -> ModuleInfo
    rCalls        \* the RegisterModule calls made, in order, and how each ended

VARIABLES
    dUp,          \* the upstream targets that answer, whichever query asks
    dWfail,       \* whether the writes of the response writers fail
    dCalls,       \* the ServeDNS calls in flight or done: their query and locals
    dLast         \* the group ClassifyDNSRequest returned last, to whichever call

cvars == <<cGroups, compiled, cState, cIP, cResult, cVia>>
zvars == <<zCfg, zmgr, zState, zQuery, zCtx, zUp, zWfail, zOut>>

ovars == <<oBase, heap, oBaseTree, oCopy, oOverrides, oConfig, oModified, oResult, oState, oCalls>>

pvars == <<pCfg, pState, pCompiled, pInstances, pBaseHandler, pPolicyTrees,
           pIP, pQuery, pUp, pWfail, pOut, pCleanup>>

lvars == <<lCurrent, lGens, lTrace, lLast>>
uvars == <<uCfg, uState, uRes, uReq, uOutcome, uWfail, uOut>>
svars == <<sServer, sRoot, sState, sLog>>
rvars == <<modules, rCalls>>
dvars == <<dUp, dWfail, dCalls, dLast>>

vars == <<cGroups, compiled, cState, cIP, cResult, cVia,
          zCfg, zmgr, zState, zQuery, zCtx, zUp, zWfail, zOut,
          oBase, heap, oBaseTree, oCopy, oOverrides, oConfig, oModified, oResult, oState, oCalls,
          pCfg, pState, pCompiled, pInstances, pBaseHandler, pPolicyTrees,
          pIP, pQuery, pUp, pWfail, pOut, pCleanup,
          lCurrent, lGens, lTrace, lLast,
          uCfg, uState, uRes, uReq, uOutcome, uWfail, uOut,
          sServer, sRoot, sState, sLog,
          modules, rCalls,
          dUp, dWfail, dCalls, dLast>>

(***************************************************************************)
(* Small helpers.                                                          *)
(***************************************************************************)
RECURSIVE Pow2(_)
Pow2(n) == IF n = 0 THEN 1 ELSE 2 * Pow2(n - 1)

Range(s) == {s[i] : i \in DOMAIN s}

\* the orders in which a range loop over a Go map can visit the keys S
Perms(S) ==
    {p \in [1..Cardinality(S) -> S] : \A i, j \in DOMAIN p : i # j => p[i] # p[j]}

\* the empty Go map
EmptyMap == [k \in {} |-> k]

(***************************************************************************)
(* Client classifier (module/client/classifier.go).                        *)
(***************************************************************************)
NilIP == -1
IPs == 0 .. (Pow2(IPBits) - 1)

\* A source string, by what the parsers make of it: cidr says that the
\* string contains "/", valid that net.ParseCIDR / net.ParseIP accepts it.
SrcIP(a) == [cidr |-> FALSE, valid |-> TRUE, ip |-> a, bits |-> IPBits]
SrcCIDR(a, n) == [cidr |-> TRUE, valid |-> TRUE, ip |-> a, bits |-> n]
SrcBadIP == [cidr |-> FALSE, valid |-> FALSE, ip |-> 0, bits |-> 0]
SrcBadCIDR == [cidr |-> TRUE, valid |-> FALSE, ip |-> 0, bits |-> 0]

\* net.ParseCIDR: the network keeps the address masked to the prefix
MaskIP(a, n) == (a \div Pow2(IPBits - n)) * Pow2(IPBits - n)
ParseCIDR(src) == [ip |-> MaskIP(src.ip, src.bits), bits |-> src.bits]

\* net.IPNet.Contains
Contains(network, ip) ==
    /\ ip # NilIP
    /\ MaskIP(ip, network.bits) = network.ip

\* net.IP.Equal
IPEqual(a, b) == a = b

SourceValid(src) == src.valid

\* a classifier that compiles nothing of a source
skipSource(src, cg) == cg

\* parseSource: the compiled group with the source added to networks or ips
parseSource(src, cg) ==
    IF src.cidr
    THEN [cg EXCEPT !.networks = Append(@, ParseCIDR(src))]
    ELSE [cg EXCEPT !.ips = Append(@, src.ip)]

RECURSIVE compileSources(_, _)
compileSources(srcs, cg) ==
    IF srcs = <<>> THEN cg
    ELSE compileSources(Tail(srcs), parseSource(Head(srcs), cg))

\* the compiledClientGroup Provision builds for one group
compileGroup(g) ==
    compileSources(g.Sources, [priority |-> g.Priority, networks |-> <<>>, ips |-> <<>>])

GroupParses(g) == \A i \in DOMAIN g.Sources : SourceValid(g.Sources[i])

\* ClientClassifier.Provision visiting the groups in the order ord: the
\* groups before the first one with an unparsable source are compiled
ProvisionCompiled(groups, ord) ==
    LET bad == {i \in DOMAIN ord : ~GroupParses(groups[ord[i]])}
        done == {ord[i] : i \in {j \in DOMAIN ord : \A b \in bad : j < b}}
    IN [n \in done |-> compileGroup(groups[n])]

ProvisionOK(groups) ==
    /\ DOMAIN groups # {}
    /\ \A n \in DOMAIN groups : GroupParses(groups[n])

\* one compiled group against the client IP: exact IPs, then networks
GroupMatches(cg, ip) ==
    \/ \E i \in DOMAIN cg.ips : IPEqual(ip, cg.ips[i])
    \/ \E i \in DOMAIN cg.networks : Contains(cg.networks[i], ip)

\* a classifier that checks the networks of a group before its IPs
NetworksFirst(cg, ip) ==
    IF \E i \in DOMAIN cg.networks : Contains(cg.networks[i], ip) THEN "cidr"
    ELSE IF \E i \in DOMAIN cg.ips : IPEqual(ip, cg.ips[i]) THEN "ip"
    ELSE ""

\* the two loops of ClassifyIP over a group: the individual IPs first, the
\* CIDR networks after them
MatchedBy(cg, ip) ==
    IF \E i \in DOMAIN cg.ips : IPEqual(ip, cg.ips[i]) THEN "ip"
    ELSE IF \E i \in DOMAIN cg.networks : Contains(cg.networks[i], ip) THEN "cidr"
    ELSE ""

\* a classifier whose sort is left out: the groups stay in map order
UnsortedOrders(comp) == Perms(DOMAIN comp)

\* the orders sort.Slice can leave the groups in: ascending priority, the
\* groups of equal priority in any order (the sort is not stable and the
\* slice is filled in map order)
SortedOrders(comp) ==
    {p \in Perms(DOMAIN comp) :
        \A i, j \in DOMAIN p : i < j => comp[p[i]].priority <= comp[p[j]].priority}

FirstMatchIn(comp, ord, ip) ==
    LET hits == {i \in DOMAIN ord : GroupMatches(comp[ord[i]], ip)}
    IN IF hits = {} THEN ""
       ELSE ord[CHOOSE i \in hits : \A j \in hits : i <= j]

\* ClassifyIP with the groups sorted into the order ord
ClassifyIP(comp, ord, ip) ==
    IF ip = NilIP THEN "" ELSE FirstMatchIn(comp, ord, ip)

(***************************************************************************)
(* The classifier on its own: configurations, Provision, ClassifyIP.       *)
(***************************************************************************)
GroupNames == {"internal", "external", "guest"}

SourceLists ==
    { <<SrcCIDR(0, 0)>>,
      <<SrcCIDR(5, 1)>>,
      <<SrcIP(5), SrcCIDR(2, 2)>>,
      <<SrcCIDR(6, 2), SrcIP(7)>>,
      <<SrcIP(3), SrcBadIP>>,
      <<SrcBadCIDR>> }

GroupConfigs == [Sources : SourceLists, Priority : 0..MaxPriority]

\* groups without sources and groups of negative priority
EdgeGroups ==
    { [Sources |-> <<>>, Priority |-> 1],
      [Sources |-> <<SrcIP(5), SrcCIDR(2, 2)>>, Priority |-> -1],
      [Sources |-> <<SrcCIDR(0, 0)>>, Priority |-> 0],
      [Sources |-> <<SrcBadCIDR>>, Priority |-> 1] }

ClassifierConfigs ==
    UNION {[S -> GroupConfigs] : S \in SUBSET GroupNames}
        \cup [{"internal", "guest"} -> EdgeGroups]

CStart(configs) ==
    /\ cGroups \in configs
    /\ compiled = EmptyMap
    /\ cState = "new"
    /\ cIP = NilIP
    /\ cResult = ""
    /\ cVia = ""

\* ClientClassifier.Provision
CProvision ==
    /\ cState = "new"
    /\ IF DOMAIN cGroups = {}
       THEN /\ cState' = "failed"
            /\ compiled' = compiled
       ELSE \E ord \in Perms(DOMAIN cGroups) :
              /\ compiled' = ProvisionCompiled(cGroups, ord)
              /\ cState' = IF ProvisionOK(cGroups) THEN "provisioned" ELSE "failed"
    /\ UNCHANGED <<cGroups, cIP, cResult, cVia>>
    /\ UNCHANGED <<zvars, ovars, pvars, lvars, uvars, svars, rvars, dvars>>

\* ClientClassifier.ClassifyIP
CClassify ==
    /\ cState = "provisioned"
    /\ \E ip \in IPs \cup {NilIP} :
         \E ord \in SortedOrders(compiled) :
           /\ cIP' = ip
           /\ cResult' = ClassifyIP(compiled, ord, ip)
           /\ cVia' = IF ClassifyIP(compiled, ord, ip) = "" THEN ""
                      ELSE MatchedBy(compiled[ClassifyIP(compiled, ord, ip)], ip)
    /\ UNCHANGED <<cGroups, compiled, cState>>
    /\ UNCHANGED <<zvars, ovars, pvars, lvars, uvars, svars, rvars, dvars>>

(***************************************************************************)
(* Domain names (module/dns/zone zone.go).  A name is a string; the string *)
(* functions the code applies to it are tables over the names in use.      *)
(***************************************************************************)
\* the labels of a lower-case name ending in "."
Labels(n) ==
    CASE n = "com." -> <<"com">>
      [] n = "org." -> <<"org">>
      [] n = "a.com." -> <<"a", "com">>
      [] n = "xa.com." -> <<"xa", "com">>
      [] n = "w.a.com." -> <<"w", "a", "com">>
      [] n = "b.a.com." -> <<"b", "a", "com">>
      [] n = "x.b.a.com." -> <<"x", "b", "a", "com">>

DottedNames == {"com.", "org.", "a.com.", "xa.com.", "w.a.com.", "b.a.com.", "x.b.a.com."}

\* strings.ToLower
ToLower(n) ==
    CASE n = "A.COM" -> "a.com"
      [] n = "W.a.Com." -> "w.a.com."
      [] OTHER -> n

\* strings.HasSuffix(n, ".")
HasSuffixDot(n) == n \in DottedNames \cup {"W.a.Com."}

\* n + "."
AddDot(n) ==
    CASE n = "a.com" -> "a.com."
      [] n = "x.b.a.com" -> "x.b.a.com."
      [] n = "A.COM" -> "A.COM."

RawNames == DottedNames \cup {"A.COM", "W.a.Com.", "x.b.a.com"}

LabelLen(l) == IF l \in {"com", "org"} THEN 3 ELSE IF l = "xa" THEN 2 ELSE 1

RECURSIVE SumLabelLen(_)
SumLabelLen(ls) == IF ls = <<>> THEN 0 ELSE LabelLen(Head(ls)) + 1 + SumLabelLen(Tail(ls))

\* len(n) of a normalized name
StrLen(n) == SumLabelLen(Labels(n))

normalizeQName(qname) ==
    LET lower == ToLower(qname)
    IN IF HasSuffixDot(lower) THEN lower ELSE AddDot(lower)

\* strings.HasSuffix(q, "." + z) of normalized names: z's labels end q's
HasDotSuffix(q, z) ==
    LET lq == Labels(q)
        lz == Labels(z)
    IN /\ Len(lz) < Len(lq)
       /\ SubSeq(lq, Len(lq) - Len(lz) + 1, Len(lq)) = lz

isSubdomain(qname, zone) ==
    LET q == normalizeQName(qname)
        z == normalizeQName(zone)
    IN q = z \/ HasDotSuffix(q, z)

(***************************************************************************)
(* Records and upstreams (zone.go, forward.go).                            *)
(***************************************************************************)
NilUpstream == [nil |-> TRUE]
Upstream(targets) == [nil |-> FALSE, Upstreams |-> targets]

\* net.SplitHostPort succeeds on the target
ValidHostPort(t) == t # "no-port"

Rec(type, value) == [Type |-> type, Value |-> value, TTL |-> 0]

\* net.ParseIP(v) with To4() / To16() non-nil
ParsesIPv4(v) == v \in {"192.0.2.1", "192.0.2.2", "203.0.113.3", "203.0.113.4"}
ParsesIPv6(v) == ParsesIPv4(v) \/ v = "2001:db8::1"

\* strings.ToUpper of a record type
ToUpper(type) == IF type = "a" THEN "A" ELSE type

\* a zone that answers with the value of any record
encodeAnyway(record, qname) ==
    [rcode |-> "NOERROR", answer |-> record.Value,
     ttl |-> IF record.TTL = 0 THEN 300 ELSE record.TTL]

\* createDNSResponse: the reply built for a local record
createDNSResponse(record, qname) ==
    LET ttl == IF record.TTL = 0 THEN 300 ELSE record.TTL
        fail == [rcode |-> "SERVFAIL", answer |-> "", ttl |-> 0]
        ok == [rcode |-> "NOERROR", answer |-> record.Value, ttl |-> ttl]
    IN CASE ToUpper(record.Type) = "A" -> IF ParsesIPv4(record.Value) THEN ok ELSE fail
         [] ToUpper(record.Type) = "AAAA" -> IF ParsesIPv6(record.Value) THEN ok ELSE fail
         [] ToUpper(record.Type) = "CNAME" -> ok
         [] ToUpper(record.Type) = "TXT" -> ok
         [] OTHER -> fail

\* a zone that takes every record for compatible with the query
anyQType(record, qtype) == TRUE

matchesQType(record, qtype) ==
    CASE qtype = "A" -> record.Type = "A"
      [] qtype = "AAAA" -> record.Type = "AAAA"
      [] qtype = "CNAME" -> record.Type = "CNAME"
      [] qtype = "TXT" -> record.Type = "TXT"
      [] qtype = "ANY" -> TRUE
      [] OTHER -> FALSE

\* the record map NewForwardZone keeps: the keys normalized, and of two
\* keys with one normal form the one the range loop visits last
NormalizedRecords(records, pick) ==
    LET keys == {normalizeQName(k) : k \in DOMAIN records}
    IN [n \in keys |-> records[pick[n]]]

\* the ways the range loop of NewForwardZone can settle colliding keys
RecordPicks(records) ==
    LET keys == {normalizeQName(k) : k \in DOMAIN records}
    IN {f \in [keys -> DOMAIN records] : \A n \in keys : normalizeQName(f[n]) = n}

NewForwardZone(zoneName, records, upstream, pick) ==
    [zoneName |-> normalizeQName(zoneName),
     records |-> NormalizedRecords(records, pick),
     upstreamConfig |-> upstream]

\* ForwardZone.Match
Match(fz, qname) == isSubdomain(qname, fz.zoneName)

(***************************************************************************)
(* What a query leaves behind: the calls and writes it made, in order.     *)
(***************************************************************************)
EvResolve(zone, group) == [e |-> "resolve", zone |-> zone, group |-> group]
EvExchange(target) == [e |-> "exchange", target |-> target]
EvWrite(rcode, answer, ttl) == [e |-> "write", rcode |-> rcode, answer |-> answer, ttl |-> ttl]

\* the exchange loop over the targets of an upstream: the targets with a
\* host:port form are tried in order up to the first in up, which answers
RECURSIVE ExchangeLoop(_, _, _)
ExchangeLoop(targets, up, ev) ==
    IF targets = <<>> THEN [answered |-> FALSE, ev |-> ev]
    ELSE LET t == Head(targets)
         IN IF ~ValidHostPort(t) THEN ExchangeLoop(Tail(targets), up, ev)
            ELSE IF t \in up
                 THEN [answered |-> TRUE,
                       ev |-> ev \o <<EvExchange(t), EvWrite("UPSTREAM", t, 0)>>]
                 ELSE ExchangeLoop(Tail(targets), up, Append(ev, EvExchange(t)))

\* ForwardZone.forwardToUpstream
forwardToUpstream(fz, up, wfail, ev) ==
    IF fz.upstreamConfig.nil \/ fz.upstreamConfig.Upstreams = <<>>
    THEN [handled |-> FALSE, err |-> FALSE, ev |-> ev]
    ELSE LET r == ExchangeLoop(fz.upstreamConfig.Upstreams, up, ev)
         IN [handled |-> r.answered, err |-> r.answered /\ wfail, ev |-> r.ev]

\* ForwardZone.Resolve
Resolve(fz, q, group, up, wfail, ev) ==
    LET qname == normalizeQName(q.name)
        ev1 == Append(ev, EvResolve(fz.zoneName, group))
    IN IF ~q.hasQuestion THEN [handled |-> FALSE, err |-> TRUE, ev |-> ev1]
       ELSE IF ~Match(fz, qname) THEN [handled |-> FALSE, err |-> FALSE, ev |-> ev1]
       ELSE IF qname \in DOMAIN fz.records /\ matchesQType(fz.records[qname], q.qtype)
       THEN LET m == createDNSResponse(fz.records[qname], qname)
            IN [handled |-> TRUE, err |-> wfail,
                ev |-> Append(ev1, EvWrite(m.rcode, m.answer, m.ttl))]
       ELSE forwardToUpstream(fz, up, wfail, ev1)

(***************************************************************************)
(* Zone manager (module/dns/zone/manager.go).                              *)
(***************************************************************************)
ZoneCfg(type, zone, records, upstream) ==
    [Type |-> type, Zone |-> zone, Records |-> records, Upstream |-> upstream]

\* strings.ToLower(config.Type) is "forward" or ""
ZoneTypeOK(type) == type \in {"forward", "Forward", ""}

\* the targets Provision installs when no default upstream is configured
DefaultTargets == <<"8.8.8.8:53", "1.1.1.1:53">>

ConfiguredDefault(cfg) == cfg.DefaultUpstream

ProvisionedDefault(cfg) ==
    IF cfg.DefaultUpstream.nil THEN Upstream(DefaultTargets) ELSE cfg.DefaultUpstream

\* a manager that leaves a zone without upstream as it is configured
createZoneAsConfigured(zc, default, pick) ==
    NewForwardZone(zc.Zone, zc.Records, zc.Upstream, pick)

\* ZoneManager.createZone: the zone falls back to the default upstream
createZone(zc, default, pick) ==
    NewForwardZone(zc.Zone, zc.Records, IF zc.Upstream.nil THEN default ELSE zc.Upstream, pick)

\* the loop of Provision over zm.Zones from index i: it stops at the first
\* zone of an unsupported type, keeping the zones created before it
RECURSIVE ProvisionZones(_, _, _, _, _)
ProvisionZones(zones, default, picks, i, acc) ==
    IF i > Len(zones) THEN [ok |-> TRUE, baseZones |-> acc]
    ELSE IF ~ZoneTypeOK(zones[i].Type) THEN [ok |-> FALSE, baseZones |-> acc]
    ELSE LET z == createZone(zones[i], default, picks[i])
         IN ProvisionZones(zones, default, picks, i + 1,
                [n \in DOMAIN acc \cup {z.zoneName} |->
                    IF n = z.zoneName THEN z ELSE acc[n]])

\* ZoneManager.Provision: [ok, baseZones, DefaultUpstream]
ZMProvision(cfg, picks) ==
    LET default == ProvisionedDefault(cfg)
        r == ProvisionZones(cfg.Zones, default, picks, 1, EmptyMap)
    IN [ok |-> r.ok, baseZones |-> r.baseZones, DefaultUpstream |-> default]

PicksFor(cfg) ==
    {f \in [DOMAIN cfg.Zones -> UNION {RecordPicks(cfg.Zones[i].Records) : i \in DOMAIN cfg.Zones}] :
        \A i \in DOMAIN cfg.Zones : f[i] \in RecordPicks(cfg.Zones[i].Records)}

\* the value the request context holds under ClientGroupKey
CtxAbsent == [has |-> FALSE, str |-> FALSE, val |-> ""]
CtxString(g) == [has |-> TRUE, str |-> TRUE, val |-> g]
CtxNonString == [has |-> TRUE, str |-> FALSE, val |-> "123"]

\* ZoneManager.extractClientGroup
extractClientGroup(ctx) == "default"

\* ZoneManager.sendErrorResponse
sendErrorResponse(ev, rcode, wfail) ==
    [ev |-> Append(ev, EvWrite(rcode, "", 0)), err |-> wfail]

\* ZoneManager.forwardToDefaultUpstream
forwardToDefaultUpstream(zm, up, wfail, ev) ==
    LET r == ExchangeLoop(zm.DefaultUpstream.Upstreams, up, ev)
    IN IF r.answered THEN [ev |-> r.ev, err |-> wfail]
       ELSE sendErrorResponse(r.ev, "SERVFAIL", wfail)

\* the orders in which the range loop of ServeDNS can visit zm.baseZones
ZoneOrders(baseZones) == Perms(DOMAIN baseZones)

\* the loop of ServeDNS over the zones, from position i of the order ord
RECURSIVE ServeZones(_, _, _, _, _, _, _, _)
ServeZones(zm, q, group, ord, up, wfail, i, ev) ==
    IF i > Len(ord)
    THEN IF ~zm.DefaultUpstream.nil /\ zm.DefaultUpstream.Upstreams # <<>>
         THEN forwardToDefaultUpstream(zm, up, wfail, ev)
         ELSE sendErrorResponse(ev, "NXDOMAIN", wfail)
    ELSE LET fz == zm.baseZones[ord[i]]
         IN IF ~Match(fz, normalizeQName(q.name))
            THEN ServeZones(zm, q, group, ord, up, wfail, i + 1, ev)
            ELSE LET r == Resolve(fz, q, group, up, wfail, ev)
                 IN IF r.err THEN sendErrorResponse(r.ev, "SERVFAIL", wfail)
                    ELSE IF r.handled THEN [ev |-> r.ev, err |-> FALSE]
                    ELSE ServeZones(zm, q, group, ord, up, wfail, i + 1, r.ev)

\* ZoneManager.ServeDNS: the events of the query, the error returned and the
\* client group the manager worked with
ZMServeDNS(zm, ctx, q, ord, up, wfail) ==
    IF ~q.hasQuestion
    THEN sendErrorResponse(<<>>, "FORMERR", wfail) @@ [group |-> ""]
    ELSE LET group == extractClientGroup(ctx)
         IN ServeZones(zm, q, group, ord, up, wfail, 1, <<>>) @@ [group |-> group]

(***************************************************************************)
(* The zone manager on its own: configurations, Provision, ServeDNS.       *)
(***************************************************************************)
\* the zone configurations may hold up to MaxZones zones
MaxZones == 2

ZoneTemplates ==
    { ZoneCfg("forward", "com.", ("xa.com." :> Rec("A", "192.0.2.1")), NilUpstream),
      ZoneCfg("", "a.com.",
              ("w.a.com." :> Rec("A", "192.0.2.2") @@ "x.b.a.com." :> Rec("A", "203.0.113.3")),
              NilUpstream),
      ZoneCfg("Forward", "A.COM", ("W.a.Com." :> Rec("TXT", "hello")),
              Upstream(<<"10.0.0.1:53">>)),
      ZoneCfg("forward", "b.a.com.", ("x.b.a.com." :> Rec("TXT", "world")),
              Upstream(<<"no-port", "10.0.0.1:53">>)),
      ZoneCfg("forward", "a.com.",
              ("w.a.com." :> Rec("A", "not-an-ip") @@ "x.b.a.com." :> Rec("MX", "mail")
                  @@ "a.com." :> Rec("a", "192.0.2.1")),
              Upstream(<<"10.0.0.1:53">>)),
      ZoneCfg("stub", "org.", EmptyMap, NilUpstream) }

ZoneLists ==
    {zs \in UNION {[1..n -> ZoneTemplates] : n \in 0..MaxZones} :
        \A i, j \in DOMAIN zs : i # j => zs[i] # zs[j]}

DefaultUpstreams == {NilUpstream, Upstream(<<>>), Upstream(<<"9.9.9.9:53">>)}

ZoneManagerConfigs == [Zones : ZoneLists, DefaultUpstream : DefaultUpstreams]

NoQuestion == [hasQuestion |-> FALSE, name |-> "", qtype |-> ""]
Question(name, qtype) == [hasQuestion |-> TRUE, name |-> name, qtype |-> qtype]

Queries ==
    {NoQuestion} \cup
    {Question(n, t) : n \in {"x.b.a.com", "w.a.com.", "xa.com.", "org.", "A.COM"},
                      t \in {"A", "ANY", "MX"}}

CtxValues == {CtxAbsent, CtxString(""), CtxString("internal"), CtxNonString}

UpSets == {{}, {"1.1.1.1:53", "9.9.9.9:53"}, {"10.0.0.1:53", "8.8.8.8:53"}}

NoOut == [ev |-> <<>>, err |-> FALSE, group |-> ""]

ZStart(configs) ==
    /\ zCfg \in configs
    /\ zmgr = [baseZones |-> EmptyMap, DefaultUpstream |-> NilUpstream]
    /\ zState = "new"
    /\ zQuery = NoQuestion
    /\ zCtx = CtxAbsent
    /\ zUp = {}
    /\ zWfail = FALSE
    /\ zOut = NoOut

\* ZoneManager.Provision
ZProvision ==
    /\ zState = "new"
    /\ \E picks \in PicksFor(zCfg) :
         LET r == ZMProvision(zCfg, picks)
         IN /\ zmgr' = [baseZones |-> r.baseZones, DefaultUpstream |-> r.DefaultUpstream]
            /\ zState' = IF r.ok THEN "provisioned" ELSE "failed"
    /\ UNCHANGED <<zCfg, zQuery, zCtx, zUp, zWfail, zOut>>
    /\ UNCHANGED <<cvars, ovars, pvars, lvars, uvars, svars, rvars, dvars>>

\* ForwardZone.Resolve called on a zone of the manager, as the tests of the
\* zone do
ZResolve ==
    /\ zState = "provisioned"
    /\ \E n \in DOMAIN zmgr.baseZones, q \in Queries, up \in UpSets, wfail \in BOOLEAN :
         /\ zQuery' = q
         /\ zUp' = up
         /\ zWfail' = wfail
         /\ zOut' = Resolve(zmgr.baseZones[n], q, "default", up, wfail, <<>>)
                        @@ [group |-> "default", zone |-> n]
    /\ zState' = "resolved"
    /\ UNCHANGED <<zCfg, zmgr, zCtx>>
    /\ UNCHANGED <<cvars, ovars, pvars, lvars, uvars, svars, rvars, dvars>>

\* ZoneManager.ServeDNS.  The manager keeps nothing from one query to the
\* next, so a behaviour follows one query: it reaches every state that a
\* sequence of queries reaches.
ZServeDNS ==
    /\ zState = "provisioned"
    /\ \E q \in Queries, ctx \in CtxValues, up \in UpSets, wfail \in BOOLEAN :
         \E ord \in ZoneOrders(zmgr.baseZones) :
           /\ zQuery' = q
           /\ zCtx' = ctx
           /\ zUp' = up
           /\ zWfail' = wfail
           /\ zOut' = ZMServeDNS(zmgr, ctx, q, ord, up, wfail)
    /\ zState' = "served"
    /\ UNCHANGED <<zCfg, zmgr>>
    /\ UNCHANGED <<cvars, ovars, pvars, lvars, uvars, svars, rvars, dvars>>


(***************************************************************************)
(* JSON documents and their decoded trees (encoding/json as the policy     *)
(* handler uses it).  A document is a value; a decoded tree lives in a     *)
(* heap of maps and slices, which are shared by reference as in Go.        *)
(***************************************************************************)
Str(s) == [t |-> "str", v |-> s]
Num(s) == [t |-> "num", v |-> s]
Null == [t |-> "null"]
Obj(m) == [t |-> "obj", m |-> m]
Arr(s) == [t |-> "arr", s |-> s]
Ref(a) == [t |-> "ref", a |-> a]

IsStr(v) == v.t = "str"
IsMap(h, v) == v.t = "ref" /\ h[v.a].t = "map"
IsSlice(h, v) == v.t = "ref" /\ h[v.a].t = "slice"

RECURSIVE SetToSeq(_)
SetToSeq(S) ==
    IF S = {} THEN <<>>
    ELSE LET x == CHOOSE y \in S : TRUE IN <<x>> \o SetToSeq(S \ {x})

\* make(map...) / make([]interface{}, ...): a new node of the heap
Alloc(h, node) == [h |-> Append(h, node), v |-> Ref(Len(h) + 1)]

\* m[k] of a map node, nil when the key is absent
Get(h, a, k) == IF k \in DOMAIN h[a].m THEN h[a].m[k] ELSE Null

\* m[k] = v on the map node at a
SetKey(h, a, k, v) ==
    [h EXCEPT ![a] = [t |-> "map",
                      m |-> [x \in DOMAIN h[a].m \cup {k} |-> IF x = k THEN v ELSE h[a].m[x]]]]

\* s[i] = v on the slice node at a
SetItem(h, a, i, v) ==
    [h EXCEPT ![a] = [t |-> "slice", s |-> [h[a].s EXCEPT ![i] = v]]]

\* the value at address a of the heap h
Filled(h, a) == [h |-> h, v |-> Ref(a)]

\* result[key] = r.v and result[i] = r.v, r being a value and the heap it lives in
StoreKey(r, result, key) == SetKey(r.h, result, key, r.v)
StoreItem(r, result, i) == SetItem(r.h, result, i, r.v)

\* append(s, r.v) on the slice node at a
AppendItem(r, a) == [r.h EXCEPT ![a] = [t |-> "slice", s |-> Append(r.h[a].s, r.v)]]

\* json.Unmarshal into interface{}: every object and array is a new node,
\* made empty and then filled member by member
RECURSIVE Unmarshal(_, _)
RECURSIVE UnmarshalKeys(_, _, _)
RECURSIVE UnmarshalItems(_, _, _)
Unmarshal(h, d) ==
    CASE d.t = "obj" ->
            Filled(UnmarshalKeys(Append(h, [t |-> "map", m |-> EmptyMap]), Len(h) + 1, d.m),
                   Len(h) + 1)
      [] d.t = "arr" ->
            Filled(UnmarshalItems(Append(h, [t |-> "slice", s |-> <<>>]), Len(h) + 1, d.s),
                   Len(h) + 1)
      [] OTHER -> [h |-> h, v |-> d]
\* the member k of the object m is decoded and stored in the map at a
UnmarshalMember(h, a, m, k) == UnmarshalKeys(StoreKey(Unmarshal(h, m[k]), a, k), a, m)
UnmarshalKeys(h, a, m) ==
    IF DOMAIN h[a].m = DOMAIN m THEN h
    ELSE UnmarshalMember(h, a, m, CHOOSE k \in DOMAIN m \ DOMAIN h[a].m : TRUE)
UnmarshalItems(h, a, s) ==
    IF Len(h[a].s) = Len(s) THEN h
    ELSE UnmarshalItems(AppendItem(Unmarshal(h, s[Len(h[a].s) + 1]), a), a, s)

\* json.Marshal of a decoded tree
RECURSIVE Marshal(_, _)
Marshal(h, v) ==
    IF v.t # "ref" THEN v
    ELSE IF h[v.a].t = "map"
         THEN Obj([k \in DOMAIN h[v.a].m |-> Marshal(h, h[v.a].m[k])])
         ELSE Arr([i \in DOMAIN h[v.a].s |-> Marshal(h, h[v.a].s[i])])

\* the maps and slices reachable from a value
RECURSIVE Reach(_, _)
Reach(h, v) ==
    IF v.t # "ref" THEN {}
    ELSE {v.a} \cup
         (IF h[v.a].t = "map"
          THEN UNION {Reach(h, h[v.a].m[k]) : k \in DOMAIN h[v.a].m}
          ELSE UNION {Reach(h, h[v.a].s[i]) : i \in DOMAIN h[v.a].s})

(***************************************************************************)
(* Selective override (policy handler: applyOverrides and its helpers).    *)
(***************************************************************************)
\* a deepCopyValue that hands back the map or slice it was given
shareValue(h, v) == [h |-> h, v |-> v]

RECURSIVE CopyKeys(_, _, _)
RECURSIVE CopyItems(_, _, _, _)
RECURSIVE deepCopyMap(_, _)

\* PolicyHandler.deepCopyValue
deepCopyValue(h, v) ==
    IF IsMap(h, v) THEN deepCopyMap(h, v.a)
    ELSE IF IsSlice(h, v)
    THEN Filled(CopyItems(Append(h, [t |-> "slice", s |-> [i \in DOMAIN h[v.a].s |-> Null]]),
                          v.a, Len(h) + 1, 1),
                Len(h) + 1)
    ELSE [h |-> h, v |-> v]

\* PolicyHandler.deepCopyMap of the map at a
deepCopyMap(h, a) ==
    Filled(CopyKeys(Append(h, [t |-> "map", m |-> EmptyMap]), a, Len(h) + 1), Len(h) + 1)

\* copy[k] = p.deepCopyValue(v)
CopyMember(h, src, copy, k) ==
    CopyKeys(StoreKey(deepCopyValue(h, h[src].m[k]), copy, k), src, copy)
\* the loop of deepCopyMap over the keys of the map at src
CopyKeys(h, src, copy) ==
    IF DOMAIN h[copy].m = DOMAIN h[src].m THEN h
    ELSE CopyMember(h, src, copy, CHOOSE k \in DOMAIN h[src].m \ DOMAIN h[copy].m : TRUE)
\* the loop of deepCopyValue over the items of the slice at src
CopyItems(h, src, copy, i) ==
    IF i > Len(h[src].s) THEN h
    ELSE CopyItems(StoreItem(deepCopyValue(h, h[src].s[i]), copy, i), src, copy, i + 1)

\* the zone name a zone entry is filed under: it is an object with a
\* string "zone"
HasZoneName(h, v) == IsMap(h, v) /\ IsStr(Get(h, v.a, "zone"))

\* zoneMap[zoneName] = zone for the entries of a slice, in order
RECURSIVE FileZones(_, _, _, _)
FileZones(h, s, i, zoneMap) ==
    IF i > Len(s) THEN zoneMap
    ELSE FileZones(h, s, i + 1,
            IF HasZoneName(h, s[i])
            THEN (Get(h, s[i].a, "zone").v :> s[i]) @@ zoneMap
            ELSE zoneMap)

\* the names in names, in the order rank lists them
InRankOrder(names, rank) == SelectSeq(rank, LAMBDA n : n \in names)

\* the result slice of mergeZones: the entries of zoneMap in the order given
ZoneSlice(zoneMap, order) == [t |-> "slice", s |-> [i \in DOMAIN order |-> zoneMap[order[i]]]]

\* a mergeZones that lets the override's zones replace the base's
replaceZones(h, baseZones, overrideZones, rank) == [h |-> h, v |-> overrideZones]

\* PolicyHandler.mergeZones; rank is the order in which the range loop over
\* zoneMap visits the zone names
mergeZones(h, baseZones, overrideZones, rank) ==
    IF ~IsSlice(h, baseZones) THEN [h |-> h, v |-> overrideZones]
    ELSE IF ~IsSlice(h, overrideZones) THEN [h |-> h, v |-> baseZones]
    ELSE LET zoneMap == FileZones(h, h[overrideZones.a].s, 1,
                            FileZones(h, h[baseZones.a].s, 1, EmptyMap))
         IN Alloc(h, ZoneSlice(zoneMap, InRankOrder(DOMAIN zoneMap, rank)))

\* the loop merging overrideConfig (the map at over) into result
RECURSIVE MergeKeys(_, _, _, _, _, _)
MergeKeys(h, result, handlerType, over, ks, rank) ==
    IF ks = <<>> THEN h
    ELSE MergeKeys(StoreKey(IF Head(ks) = "zones" /\ handlerType = "dns.zone.manager"
                            THEN mergeZones(h, Get(h, result, "zones"),
                                            h[over].m[Head(ks)], rank)
                            ELSE [h |-> h, v |-> h[over].m[Head(ks)]],
                            result, Head(ks)),
                   result, handlerType, over, Tail(ks), rank)

\* json.Unmarshal of the override into a map: a map, nil for "null", an
\* error for anything else
DecodeOverride(h, d) ==
    IF d.t = "obj" THEN Unmarshal(h, d) @@ [err |-> FALSE]
    ELSE [h |-> h, v |-> Null, err |-> d.t # "null"]

\* overrideConfig o merged into result when it decoded; walk says whether
\* applyOverridesToConfig goes on into the values of result
MergeDecoded(o, result, handlerType, rank) ==
    [h |-> IF o.v.t = "ref"
           THEN MergeKeys(o.h, result.a, handlerType, o.v.a, SetToSeq(DOMAIN o.h[o.v.a].m), rank)
           ELSE o.h,
     v |-> result,
     walk |-> ~o.err]

\* a merge that takes some override whatever the node's handler type is
MergeFirst(c, overrides, rank) ==
    MergeDecoded(DecodeOverride(c.h, overrides[CHOOSE id \in DOMAIN overrides : TRUE]),
                 c.v, "", rank)

\* the first half of applyOverridesToConfig on the copy c: the override of
\* the node's handler type, when it has one, is merged into the copy
MergeOverride(c, overrides, rank) ==
    IF IsStr(Get(c.h, c.v.a, "handler")) /\ Get(c.h, c.v.a, "handler").v \in DOMAIN overrides
    THEN MergeDecoded(DecodeOverride(c.h, overrides[Get(c.h, c.v.a, "handler").v]),
                      c.v, Get(c.h, c.v.a, "handler").v, rank)
    ELSE c @@ [walk |-> TRUE]

\* the outcome of a walk w that filled the node v
Walked(w, v) == [h |-> w.h, v |-> v, ok |-> w.ok]

RECURSIVE applyOverridesToConfig(_, _, _, _, _)
RECURSIVE applyOverridesToSlice(_, _, _, _, _)
RECURSIVE WalkKeys(_, _, _, _, _, _)
RECURSIVE WalkItems(_, _, _, _, _, _, _)

\* the second half of applyOverridesToConfig: the walk into the values of result
WalkResult(c, overrides, rank, depth) ==
    IF ~c.walk THEN [h |-> c.h, v |-> c.v, ok |-> TRUE]
    ELSE Walked(WalkKeys(c.h, c.v.a, SetToSeq(DOMAIN c.h[c.v.a].m), overrides, rank, depth),
                c.v)

\* PolicyHandler.applyOverridesToConfig on the map at a; depth is the call
\* depth left before the goroutine stack is exhausted
applyOverridesToConfig(h, a, overrides, rank, depth) ==
    IF depth = 0 THEN [h |-> h, v |-> Null, ok |-> FALSE]
    ELSE WalkResult(MergeOverride(deepCopyMap(h, a), overrides, rank), overrides, rank, depth)

\* the switch on a value of result: maps and slices are walked
WalkValue(h, value, overrides, rank, depth) ==
    IF IsMap(h, value) THEN applyOverridesToConfig(h, value.a, overrides, rank, depth)
    ELSE IF IsSlice(h, value) THEN applyOverridesToSlice(h, value.a, overrides, rank, depth)
    ELSE [h |-> h, v |-> value, ok |-> TRUE]

\* result[key] = r.v for the first key of ks, and on to the next key
WalkKey(r, result, ks, overrides, rank, depth) ==
    IF ~r.ok THEN [h |-> r.h, ok |-> FALSE]
    ELSE WalkKeys(StoreKey(r, result, Head(ks)), result, Tail(ks), overrides, rank, depth)

\* the loop of applyOverridesToConfig over the keys of result
WalkKeys(h, result, ks, overrides, rank, depth) ==
    IF ks = <<>> THEN [h |-> h, ok |-> TRUE]
    ELSE WalkKey(WalkValue(h, h[result].m[Head(ks)], overrides, rank, depth - 1),
                 result, ks, overrides, rank, depth)

\* the walk of the slice at a into the new slice r
WalkSlice(r, a, overrides, rank, depth) ==
    Walked(WalkItems(r.h, a, r.v.a, 1, overrides, rank, depth), r.v)

\* PolicyHandler.applyOverridesToSlice on the slice at a
applyOverridesToSlice(h, a, overrides, rank, depth) ==
    IF depth = 0 THEN [h |-> h, v |-> Null, ok |-> FALSE]
    ELSE WalkSlice(Alloc(h, [t |-> "slice", s |-> [i \in DOMAIN h[a].s |-> Null]]),
                   a, overrides, rank, depth)

\* the switch on an item: only maps are walked, everything else is kept
WalkElem(h, item, overrides, rank, depth) ==
    IF IsMap(h, item) THEN applyOverridesToConfig(h, item.a, overrides, rank, depth)
    ELSE [h |-> h, v |-> item, ok |-> TRUE]

\* result[i] = r.v, and on to the next item
WalkItem(r, a, result, i, overrides, rank, depth) ==
    IF ~r.ok THEN [h |-> r.h, ok |-> FALSE]
    ELSE WalkItems(StoreItem(r, result, i), a, result, i + 1, overrides, rank, depth)

\* the loop of applyOverridesToSlice over the items
WalkItems(h, a, result, i, overrides, rank, depth) ==
    IF i > Len(h[a].s) THEN [h |-> h, ok |-> TRUE]
    ELSE WalkItem(WalkElem(h, h[a].s[i], overrides, rank, depth - 1),
                  a, result, i, overrides, rank, depth)

\* what applyOverrides leaves: the decoded tree, the walked tree and the
\* document encoded from it
Encoded(config, modified) ==
    [h |-> modified.h,
     config |-> config,
     modified |-> modified.v,
     ok |-> modified.ok,
     result |-> IF modified.ok THEN Marshal(modified.h, modified.v) ELSE Null]

\* the walk of the decoded base configuration
WalkDecoded(config, overrides, rank, depth) ==
    Encoded(config.v, applyOverridesToConfig(config.h, config.v.a, overrides, rank, depth))

\* PolicyHandler.applyOverrides on the heap h: the base document decoded,
\* walked and encoded again
applyOverrides(h, baseConfig, overrides, rank, depth) ==
    WalkDecoded(Unmarshal(h, baseConfig), overrides, rank, depth)

(***************************************************************************)
(* applyOverrides on its own: base documents and override sets.            *)
(***************************************************************************)
RecDoc(type, value) == Obj("type" :> Str(type) @@ "value" :> Str(value))

ZoneDoc(zone, records) ==
    Obj("type" :> Str("forward") @@ "zone" :> Str(zone) @@ "records" :> Obj(records))

UpstreamDoc(targets) == Obj("upstreams" :> Arr([i \in DOMAIN targets |-> Str(targets[i])]))

DZcom == ZoneDoc("com.", ("xa.com." :> RecDoc("A", "192.0.2.1")))
DZa == ZoneDoc("a.com.", ("w.a.com." :> RecDoc("A", "192.0.2.2") @@
                          "x.b.a.com." :> RecDoc("A", "203.0.113.3")))
DZaOver == ZoneDoc("a.com.", ("w.a.com." :> RecDoc("A", "203.0.113.4")))
DZb == ZoneDoc("b.a.com.", ("x.b.a.com." :> RecDoc("TXT", "world")))
DZbLater == ZoneDoc("b.a.com.", EmptyMap)

BChain ==
    Obj("handler" :> Str("chain") @@
        "handlers" :> Arr(<<Obj("handler" :> Str("cache") @@ "size" :> Num(1000)),
                            Obj("handler" :> Str("upstream") @@
                                "upstreams" :> Arr(<<Str("1.1.1.1:53")>>) @@
                                "timeout" :> Str("5s"))>>))
BNested ==
    Obj("handler" :> Str("a") @@ "x" :> Str("1") @@
        "child" :> Obj("handler" :> Str("b") @@ "x" :> Str("1") @@
                       "inner" :> Obj("handler" :> Str("a") @@ "x" :> Str("0"))) @@
        "plain" :> Obj("x" :> Str("1")))
BArrays ==
    Obj("handler" :> Num(7) @@ "x" :> Str("1") @@
        "list" :> Arr(<<Arr(<<Obj("handler" :> Str("a") @@ "x" :> Str("1"))>>),
                        Str("s"),
                        Obj("handler" :> Str("b") @@ "x" :> Str("1"))>>))
BZones ==
    Obj("handler" :> Str("dns.zone.manager") @@
        "zones" :> Arr(<<DZcom, DZa>>) @@
        "default_upstream" :> UpstreamDoc(<<"9.9.9.9:53">>))
BNoZones ==
    Obj("handler" :> Str("dns.zone.manager") @@
        "default_upstream" :> UpstreamDoc(<<"9.9.9.9:53">>))
BChainZones ==
    Obj("handler" :> Str("chain") @@
        "handlers" :> Arr(<<Obj("handler" :> Str("dns.zone.manager") @@
                                "zones" :> Arr(<<DZa>>))>>))

BaseDocs == {BChain, BNested, BArrays, BZones, BNoZones, BChainZones}

OUpstream ==
    "upstream" :> Obj("upstreams" :> Arr(<<Str("8.8.8.8:53")>>) @@ "timeout" :> Str("2s"))
OA == "a" :> Obj("x" :> Str("9") @@ "y" :> Str("new"))
OAB == "a" :> Obj("x" :> Str("9")) @@ "b" :> Obj("x" :> Str("8"))
ONested ==
    "a" :> Obj("child" :> Obj("handler" :> Str("b") @@ "x" :> Str("5"))) @@
    "b" :> Obj("x" :> Str("8"))
OChild == "a" :> Obj("child" :> Obj("handler" :> Str("c") @@ "x" :> Str("5")))
OSelf == "a" :> Obj("inner" :> Obj("handler" :> Str("a")))
ORename == "b" :> Obj("handler" :> Str("c"))
ONull == "cache" :> Null @@ "chain" :> Obj("mode" :> Str("fast"))
OZones == "dns.zone.manager" :> Obj("zones" :> Arr(<<DZaOver, DZb>>))
OZonesTwice ==
    "dns.zone.manager" :> Obj("zones" :> Arr(<<DZb, Str("junk"), DZbLater>>) @@
                              "default_upstream" :> UpstreamDoc(<<"8.8.8.8:53">>))
OZonesString == "dns.zone.manager" :> Obj("zones" :> Str("not-a-slice"))
OString == "chain" :> Str("fast") @@ "upstream" :> Obj("timeout" :> Str("2s"))

OverrideSets ==
    {OUpstream, OA, OAB, ONested, OChild, OSelf, ORename, ONull, OZones, OZonesTwice,
     OZonesString, OString}

\* the orders in which a range loop can visit the zone names of zoneMap
ZoneRanks == Perms({"com.", "a.com.", "b.a.com."})

\* the range order counts only where zones are merged, which takes an
\* override of dns.zone.manager
RanksFor(overrides) ==
    IF "dns.zone.manager" \in DOMAIN overrides THEN ZoneRanks ELSE {<<>>}

OStart(docs) ==
    /\ oBase \in docs
    /\ heap = <<>>
    /\ oBaseTree = Null
    /\ oCopy = Null
    /\ oOverrides = EmptyMap
    /\ oConfig = Null
    /\ oModified = Null
    /\ oResult = Null
    /\ oState = "new"
    /\ oCalls = 0

\* the tree r decoded from the base document is kept for the base subtree
OKeepBase(r) ==
    /\ heap' = r.h
    /\ oBaseTree' = r.v

\* provisionHandler decoding the base document for the base subtree
ODecodeBase ==
    /\ oState = "new"
    /\ OKeepBase(Unmarshal(heap, oBase))
    /\ oState' = "ready"
    /\ UNCHANGED <<oBase, oCopy, oOverrides, oConfig, oModified, oResult, oCalls>>
    /\ UNCHANGED <<cvars, zvars, pvars, lvars, uvars, svars, rvars, dvars>>

\* the copy r is kept
OKeepCopy(r) ==
    /\ heap' = r.h
    /\ oCopy' = r.v

\* PolicyHandler.deepCopyMap(base tree)
ODeepCopy ==
    /\ oState = "ready"
    /\ oCopy = Null
    /\ OKeepCopy(deepCopyMap(heap, oBaseTree.a))
    /\ UNCHANGED <<oBase, oBaseTree, oOverrides, oConfig, oModified, oResult, oState, oCalls>>
    /\ UNCHANGED <<cvars, zvars, pvars, lvars, uvars, svars, rvars, dvars>>

\* the outcome r of applyOverrides is kept
OKeepResult(r) ==
    /\ heap' = r.h
    /\ oConfig' = r.config
    /\ oModified' = r.modified
    /\ oResult' = r.result
    /\ oState' = IF r.ok THEN "applied" ELSE "crashed"

\* PolicyHandler.applyOverrides(p.BaseHandler, overrides)
OApplyOverrides ==
    /\ oState \in {"ready", "applied"}
    /\ oCalls < MaxApplies
    /\ \E overrides \in OverrideSets :
       \E rank \in RanksFor(overrides) :
         /\ OKeepResult(applyOverrides(heap, oBase, overrides, rank, MaxWalkDepth))
         /\ oOverrides' = overrides
    /\ oCalls' = oCalls + 1
    /\ UNCHANGED <<oBase, oBaseTree, oCopy>>
    /\ UNCHANGED <<cvars, zvars, pvars, lvars, uvars, svars, rvars, dvars>>

(***************************************************************************)
(* Loading a handler from its configuration document (LoadModule and the   *)
(* decoding of the document into a ZoneManager).                           *)
(***************************************************************************)
\* the registered modules that the subtrees considered here are made of
Modules == {"dns.zone.manager"}

\* the member k is absent, null, or of one of the types
FieldOK(m, k, types) == k \notin DOMAIN m \/ m[k].t \in types \cup {"null"}

\* json.Unmarshal accepts the document for a DNSRecord, an UpstreamConfig, a
\* ZoneConfig and a ZoneManager (a null where a record or a zone entry is
\* expected is outside the documents considered)
RecordDocOK(d) ==
    /\ d.t = "obj"
    /\ FieldOK(d.m, "type", {"str"})
    /\ FieldOK(d.m, "value", {"str"})
    /\ FieldOK(d.m, "ttl", {"num"})
UpstreamDocOK(d) ==
    /\ d.t = "obj"
    /\ FieldOK(d.m, "upstreams", {"arr"})
    /\ FieldOK(d.m, "timeout", {"str"})
    /\ FieldOK(d.m, "protocol", {"str"})
    /\ ("upstreams" \in DOMAIN d.m /\ d.m["upstreams"].t = "arr") =>
            \A i \in DOMAIN d.m["upstreams"].s : d.m["upstreams"].s[i].t = "str"
ZoneDocOK(d) ==
    /\ d.t = "obj"
    /\ FieldOK(d.m, "type", {"str"})
    /\ FieldOK(d.m, "zone", {"str"})
    /\ FieldOK(d.m, "records", {"obj"})
    /\ ("records" \in DOMAIN d.m /\ d.m["records"].t = "obj") =>
            \A k \in DOMAIN d.m["records"].m : RecordDocOK(d.m["records"].m[k])
    /\ ("upstream" \in DOMAIN d.m /\ d.m["upstream"].t # "null") =>
            UpstreamDocOK(d.m["upstream"])
ZoneManagerDocOK(d) ==
    /\ d.t = "obj"
    /\ FieldOK(d.m, "zones", {"arr"})
    /\ ("zones" \in DOMAIN d.m /\ d.m["zones"].t = "arr") =>
            \A i \in DOMAIN d.m["zones"].s : ZoneDocOK(d.m["zones"].s[i])
    /\ ("default_upstream" \in DOMAIN d.m /\ d.m["default_upstream"].t # "null") =>
            UpstreamDocOK(d.m["default_upstream"])

\* the string member k, "" when absent
StrField(m, k) == IF k \in DOMAIN m /\ m[k].t = "str" THEN m[k].v ELSE ""

DecodeRecord(d) ==
    [Type |-> StrField(d.m, "type"),
     Value |-> StrField(d.m, "value"),
     TTL |-> IF "ttl" \in DOMAIN d.m /\ d.m["ttl"].t = "num" THEN d.m["ttl"].v ELSE 0]

\* the *UpstreamConfig member k
DecodeUpstream(m, k) ==
    IF k \in DOMAIN m /\ m[k].t = "obj"
    THEN Upstream(IF "upstreams" \in DOMAIN m[k].m /\ m[k].m["upstreams"].t = "arr"
                  THEN [i \in DOMAIN m[k].m["upstreams"].s |-> m[k].m["upstreams"].s[i].v]
                  ELSE <<>>)
    ELSE NilUpstream

DecodeZone(d) ==
    ZoneCfg(StrField(d.m, "type"), StrField(d.m, "zone"),
            IF "records" \in DOMAIN d.m /\ d.m["records"].t = "obj"
            THEN [k \in DOMAIN d.m["records"].m |-> DecodeRecord(d.m["records"].m[k])]
            ELSE EmptyMap,
            DecodeUpstream(d.m, "upstream"))

\* json.Unmarshal(cfgJSON, instance) for a ZoneManager
DecodeZoneManager(d) ==
    [Zones |-> IF "zones" \in DOMAIN d.m /\ d.m["zones"].t = "arr"
               THEN [i \in DOMAIN d.m["zones"].s |-> DecodeZone(d.m["zones"].s[i])]
               ELSE <<>>,
     DefaultUpstream |-> DecodeUpstream(d.m, "default_upstream")]

NoInstance == [ok |-> FALSE, inst |-> [baseZones |-> EmptyMap, DefaultUpstream |-> NilUpstream]]

\* the instance a ZoneManager.Provision outcome r leaves
Loaded(r) ==
    [ok |-> r.ok, inst |-> [baseZones |-> r.baseZones, DefaultUpstream |-> r.DefaultUpstream]]

\* mightydns.LoadModule: the module looked up, a new instance decoded from
\* the configuration and provisioned
LoadModule(cfgJSON, moduleID, picks) ==
    IF moduleID \notin Modules THEN NoInstance
    ELSE IF ~ZoneManagerDocOK(cfgJSON) THEN NoInstance
    ELSE Loaded(ZMProvision(DecodeZoneManager(cfgJSON), picks))

\* provisionHandler on the decoded configuration
LoadDecoded(config, picks) ==
    IF ~IsStr(Get(config.h, config.v.a, "handler")) THEN NoInstance
    ELSE LoadModule(Marshal(config.h, config.v), Get(config.h, config.v.a, "handler").v, picks)

\* PolicyHandler.provisionHandler; the tree it decodes is its own
provisionHandler(handlerConfig, picks) == LoadDecoded(Unmarshal(<<>>, handlerConfig), picks)

\* the ways the record names of the zones of a document can collide when
\* it is loaded
InstancePicks(doc) ==
    IF ZoneManagerDocOK(doc) THEN PicksFor(DecodeZoneManager(doc)) ELSE {<<>>}

(***************************************************************************)
(* The policy handler: Provision and ServeDNS.                             *)
(***************************************************************************)
\* a PolicyOverride: Match is whether it has a match condition
Policy(group, overrides) == [Match |-> TRUE, ClientGroup |-> group, Overrides |-> overrides]
NoMatchPolicy(overrides) == [Match |-> FALSE, ClientGroup |-> "", Overrides |-> overrides]

\* PolicyHandler.validateClientGroup
validateClientGroup(group) ==
    /\ group.Sources # <<>>
    /\ \A i \in DOMAIN group.Sources : SourceValid(group.Sources[i])
    /\ group.Priority >= 0

\* PolicyHandler.validatePolicy: a match on a known group, and overrides
\* that decode into a map
validatePolicy(policy, groups) ==
    /\ policy.Match
    /\ policy.ClientGroup # ""
    /\ policy.ClientGroup \in DOMAIN groups
    /\ \A id \in DOMAIN policy.Overrides :
          id # "" /\ policy.Overrides[id].t \in {"obj", "null"}

\* a handler that lets several policies use one group
AnyPriorities(policies) == TRUE

\* PolicyHandler.validatePolicyPriorities: no group is used by two policies
validatePolicyPriorities(policies) ==
    \A i, j \in DOMAIN policies : policies[i].ClientGroup = policies[j].ClientGroup => i = j

\* PolicyHandler.validateConfiguration
validateConfiguration(cfg) ==
    /\ cfg.BaseHandler.t = "obj"
    /\ "handler" \in DOMAIN cfg.BaseHandler.m
    /\ DOMAIN cfg.ClientGroups # {}
    /\ \A g \in DOMAIN cfg.ClientGroups : validateClientGroup(cfg.ClientGroups[g])
    /\ \A i \in DOMAIN cfg.Policies : validatePolicy(cfg.Policies[i], cfg.ClientGroups)
    /\ validatePolicyPriorities(cfg.Policies)

\* a handler that binds every policy to the base subtree
AnyOverrides(policy) == TRUE

\* len(policy.Overrides) == 0
NoOverrides(policy) == DOMAIN policy.Overrides = {}

\* p.policyTrees[group] = the instance at index inst
Bind(st, group, inst) ==
    [st EXCEPT !.trees = [g \in DOMAIN st.trees \cup {group} |->
                              IF g = group THEN inst ELSE st.trees[g]]]

RECURSIVE ProvisionPolicies(_, _, _, _, _)

\* provisionPolicyOverride once the modified handler h is loaded
PolicyLoaded(cfg, ranks, picks, i, st, h) ==
    IF ~h.ok THEN [st EXCEPT !.state = "failed"]
    ELSE ProvisionPolicies(cfg, ranks, picks, i + 1,
            Bind([st EXCEPT !.instances = Append(st.instances, h.inst)],
                 cfg.Policies[i].ClientGroup, Len(st.instances) + 1))

\* provisionPolicyOverride once applyOverrides has come to r
PolicyDerived(cfg, ranks, picks, i, st, r) ==
    IF ~r.ok THEN [st EXCEPT !.state = "crashed"]
    ELSE PolicyLoaded(cfg, ranks, picks, i, st, provisionHandler(r.result, picks[i]))

\* PolicyHandler.provisionPolicyOverrides from policy i on, each step being
\* provisionPolicyOverride; the base subtree is the instance at index 1
ProvisionPolicies(cfg, ranks, picks, i, st) ==
    IF i > Len(cfg.Policies) THEN st
    ELSE IF \/ cfg.Policies[i].ClientGroup = ""
            \/ cfg.Policies[i].ClientGroup \notin DOMAIN cfg.ClientGroups
    THEN [st EXCEPT !.state = "failed"]
    ELSE IF NoOverrides(cfg.Policies[i])
    THEN ProvisionPolicies(cfg, ranks, picks, i + 1, Bind(st, cfg.Policies[i].ClientGroup, 1))
    ELSE PolicyDerived(cfg, ranks, picks, i, st,
            applyOverrides(<<>>, cfg.BaseHandler, cfg.Policies[i].Overrides, ranks[i],
                           MaxWalkDepth))

\* Provision once the base handler b is loaded
BaseLoaded(cfg, ranks, picks, b) ==
    IF ~b.ok THEN [state |-> "failed", instances |-> <<>>, base |-> 0, trees |-> EmptyMap]
    ELSE ProvisionPolicies(cfg, ranks, picks, 1,
            [state |-> "provisioned", instances |-> <<b.inst>>, base |-> 1, trees |-> EmptyMap])

\* PolicyHandler.Provision after the validation and the classifier
ProvisionHandlers(cfg, ranks, picks) ==
    BaseLoaded(cfg, ranks, picks, provisionHandler(cfg.BaseHandler, picks[0]))

\* the handler ServeDNS selects for the classified group
SelectBase(trees, base, clientGroup) == base

SelectHandler(trees, base, clientGroup) ==
    IF clientGroup # "" /\ clientGroup \in DOMAIN trees THEN trees[clientGroup] ELSE base

\* the end of ServeDNS: the selected handler serves the query with the
\* client group in the context
Routed(instances, selected, clientGroup, q, zord, up, wfail) ==
    ZMServeDNS(instances[selected], CtxString(clientGroup), q, zord, up, wfail)
        @@ [clientGroup |-> clientGroup, selected |-> selected, ctx |-> CtxString(clientGroup)]

\* a Cleanup that cleans every bound handler it comes to
AlwaysClean(handler, cleaned, base) == handler # 0

\* handler != nil && !cleaned[handler] && handler != p.baseHandler
ShouldClean(handler, cleaned, base) ==
    handler # 0 /\ handler \notin cleaned /\ handler # base

\* the loop of Cleanup over p.policyTrees in the range order ord, from its
\* i-th key on; calls are the Cleanup calls made so far
RECURSIVE CleanTrees(_, _, _, _, _, _)
CleanTrees(trees, ord, i, base, cleaned, calls) ==
    IF i > Len(ord) THEN calls
    ELSE IF ShouldClean(trees[ord[i]], cleaned, base)
    THEN CleanTrees(trees, ord, i + 1, base, cleaned \cup {trees[ord[i]]},
                    Append(calls, trees[ord[i]]))
    ELSE CleanTrees(trees, ord, i + 1, base, cleaned, calls)

\* the outcome of Cleanup once its calls are made: an error when one of
\* them returned an error
Cleaned(calls, fails) ==
    [done |-> TRUE, calls |-> calls, fails |-> fails,
     err |-> \E i \in DOMAIN calls : calls[i] \in fails]

\* PolicyHandler.Cleanup: the base handler first, then the policy trees
Cleanup(base, trees, ord, fails) ==
    Cleaned(CleanTrees(trees, ord, 1, base, {}, IF base # 0 THEN <<base>> ELSE <<>>), fails)

(***************************************************************************)
(* The policy handler on its own: configurations, Provision, ServeDNS.     *)
(***************************************************************************)
PGroups ==
    "internal" :> [Sources |-> <<SrcCIDR(4, 1)>>, Priority |-> 1] @@
    "external" :> [Sources |-> <<SrcCIDR(0, 0)>>, Priority |-> 2] @@
    "guest" :> [Sources |-> <<SrcIP(5), SrcIP(1)>>, Priority |-> 1]

BZoneA ==
    Obj("handler" :> Str("dns.zone.manager") @@
        "zones" :> Arr(<<DZa>>) @@
        "default_upstream" :> UpstreamDoc(<<"9.9.9.9:53">>))

OZoneA == "dns.zone.manager" :> Obj("zones" :> Arr(<<DZaOver>>))
OLoop == "dns.zone.manager" :> Obj("next" :> Obj("handler" :> Str("dns.zone.manager")))

PolicyLists ==
    { <<>>,
      <<Policy("internal", EmptyMap)>>,
      <<Policy("internal", OZoneA)>>,
      <<Policy("internal", OZones), Policy("external", EmptyMap)>>,
      <<Policy("internal", OUpstream), Policy("guest", OUpstream)>>,
      <<Policy("internal", EmptyMap), Policy("internal", OZones)>>,
      <<Policy("nobody", EmptyMap)>>,
      <<NoMatchPolicy(OZoneA)>>,
      <<Policy("internal", OZoneA), Policy("", OZoneA)>>,
      <<Policy("internal", OZonesTwice)>>,
      <<Policy("external", OLoop)>>,
      <<Policy("internal", OString)>> }

PolicyConfigs ==
    [BaseHandler : {BZoneA, BZones, BNoZones, BChain, Null},
     ClientGroups : {PGroups},
     Policies : PolicyLists]
    \cup {[BaseHandler |-> BZoneA, ClientGroups |-> EmptyMap, Policies |-> <<>>]}

PQueries == {NoQuestion, Question("w.a.com.", "A"), Question("x.b.a.com", "A")}

NoPOut ==
    [ev |-> <<>>, err |-> FALSE, group |-> "", clientGroup |-> "", selected |-> 0,
     ctx |-> CtxAbsent]

\* no Cleanup call so far
NoCleanup == [done |-> FALSE, calls |-> <<>>, fails |-> {}, err |-> FALSE]

PStart(configs) ==
    /\ pCfg \in configs
    /\ pState = "new"
    /\ pCompiled = EmptyMap
    /\ pInstances = <<>>
    /\ pBaseHandler = 0
    /\ pPolicyTrees = EmptyMap
    /\ pIP = NilIP
    /\ pQuery = NoQuestion
    /\ pUp = {}
    /\ pWfail = FALSE
    /\ pOut = NoPOut
    /\ pCleanup = NoCleanup

\* the range orders of the zone merges of the policies of cfg
PolicyRanks(cfg) ==
    {f \in [DOMAIN cfg.Policies -> ZoneRanks \cup {<<>>}] :
        \A i \in DOMAIN cfg.Policies : f[i] \in RanksFor(cfg.Policies[i].Overrides)}

\* the document the subtree j is loaded from: the base document for 0, the
\* derived document of policy j otherwise
SubtreeDoc(cfg, ranks, j) ==
    IF j = 0 THEN cfg.BaseHandler
    ELSE applyOverrides(<<>>, cfg.BaseHandler, cfg.Policies[j].Overrides, ranks[j],
                        MaxWalkDepth).result

PolicyPicks(cfg, ranks) ==
    {f \in [0 .. Len(cfg.Policies) ->
                UNION {InstancePicks(SubtreeDoc(cfg, ranks, j)) : j \in 0 .. Len(cfg.Policies)}] :
        \A j \in 0 .. Len(cfg.Policies) : f[j] \in InstancePicks(SubtreeDoc(cfg, ranks, j))}

\* the handlers st are kept
PKeepHandlers(st) ==
    /\ pState' = st.state
    /\ pInstances' = st.instances
    /\ pBaseHandler' = st.base
    /\ pPolicyTrees' = st.trees

\* PolicyHandler.Provision
PProvision ==
    /\ pState = "new"
    /\ IF ~validateConfiguration(pCfg)
       THEN /\ pState' = "failed"
            /\ UNCHANGED <<pCompiled, pInstances, pBaseHandler, pPolicyTrees>>
       ELSE \E ord \in Perms(DOMAIN pCfg.ClientGroups), ranks \in PolicyRanks(pCfg) :
              \E picks \in PolicyPicks(pCfg, ranks) :
                /\ pCompiled' = ProvisionCompiled(pCfg.ClientGroups, ord)
                /\ PKeepHandlers(ProvisionHandlers(pCfg, ranks, picks))
    /\ UNCHANGED <<pCfg, pIP, pQuery, pUp, pWfail, pOut, pCleanup>>
    /\ UNCHANGED <<cvars, zvars, ovars, lvars, uvars, svars, rvars, dvars>>

\* PolicyHandler.ServeDNS; as the handler keeps nothing from one query to
\* the next, a behaviour follows one query
PServeDNS ==
    /\ pState = "provisioned"
    /\ \E ip \in IPs \cup {NilIP}, q \in PQueries, up \in UpSets, wfail \in BOOLEAN :
         \E ord \in SortedOrders(pCompiled) :
           \E zord \in ZoneOrders(
                  pInstances[SelectHandler(pPolicyTrees, pBaseHandler,
                                           ClassifyIP(pCompiled, ord, ip))].baseZones) :
             /\ pIP' = ip
             /\ pQuery' = q
             /\ pUp' = up
             /\ pWfail' = wfail
             /\ pOut' = Routed(pInstances,
                               SelectHandler(pPolicyTrees, pBaseHandler,
                                             ClassifyIP(pCompiled, ord, ip)),
                               ClassifyIP(pCompiled, ord, ip), q, zord, up, wfail)
    /\ pState' = "served"
    /\ UNCHANGED <<pCfg, pCompiled, pInstances, pBaseHandler, pPolicyTrees, pCleanup>>
    /\ UNCHANGED <<cvars, zvars, ovars, lvars, uvars, svars, rvars, dvars>>

\* PolicyHandler.Cleanup, called once on a handler whose Provision has
\* returned; fails are the instances whose own Cleanup returns an error
PCleanup ==
    /\ pState \in {"provisioned", "failed", "served"}
    /\ ~pCleanup.done
    /\ \E ord \in Perms(DOMAIN pPolicyTrees), fails \in SUBSET DOMAIN pInstances :
         pCleanup' = Cleanup(pBaseHandler, pPolicyTrees, ord, fails)
    /\ UNCHANGED <<pCfg, pState, pCompiled, pInstances, pBaseHandler, pPolicyTrees,
                   pIP, pQuery, pUp, pWfail, pOut>>
    /\ UNCHANGED <<cvars, zvars, ovars, lvars, uvars, svars, rvars, dvars>>

(***************************************************************************)
(* Upstream resolver (module/dns/resolver): Provision.                     *)
(***************************************************************************)
\* time.ParseDuration accepts the timeout
ParsesDuration(t) == t \in {"5s", "2s", "150ms"}

UpstreamResolver(upstreams, timeout, protocol) ==
    [Upstreams |-> upstreams, Timeout |-> timeout, Protocol |-> protocol]

\* json.Unmarshal(cfgJSON, instance) for an UpstreamResolver
UpstreamResolverDocOK(d) == UpstreamDocOK(d)

DecodeUpstreamResolver(d) ==
    UpstreamResolver(IF "upstreams" \in DOMAIN d.m /\ d.m["upstreams"].t = "arr"
                     THEN [i \in DOMAIN d.m["upstreams"].s |-> d.m["upstreams"].s[i].v]
                     ELSE <<>>,
                     StrField(d.m, "timeout"), StrField(d.m, "protocol"))

\* a resolver that takes its configuration as it is
UncheckedProvision(cfg) ==
    [ok |-> TRUE,
     Upstreams |-> IF cfg.Upstreams = <<>> THEN DefaultTargets ELSE cfg.Upstreams,
     protocol |-> IF cfg.Protocol = "" THEN "udp" ELSE cfg.Protocol]

\* UpstreamResolver.Provision
URProvision(cfg) ==
    [ok |-> /\ cfg.Timeout = "" \/ ParsesDuration(cfg.Timeout)
            /\ cfg.Protocol \in {"tcp", "tcp-tls", "udp", ""}
            /\ \A i \in DOMAIN cfg.Upstreams : ValidHostPort(cfg.Upstreams[i]),
     Upstreams |-> IF cfg.Upstreams = <<>> THEN DefaultTargets ELSE cfg.Upstreams,
     protocol |-> IF cfg.Protocol = "" THEN "udp" ELSE cfg.Protocol]

(***************************************************************************)
(* DNS app and its servers (module/dns/app.go).                            *)
(***************************************************************************)
\* a DNSServer of the configuration; Handler is Null when the configuration
\* names none.  handler is s.handler (set or nil), servers the dns.Server
\* values of s.servers
Server(listen, protocol, handler) ==
    [Listen |-> listen, Protocol |-> protocol, Handler |-> handler,
     handler |-> FALSE, servers |-> <<>>]

\* the handler modules the registry holds
HandlerModules == {"dns.zone.manager", "dns.resolver.upstream"}

\* the handler part of DNSServer.provision: the handler field is a string,
\* the module is registered, the document decodes into a new instance and
\* the instance provisions
HandlerLoads(doc) ==
    /\ doc.t = "obj"
    /\ "handler" \in DOMAIN doc.m
    /\ doc.m["handler"].t = "str"
    /\ doc.m["handler"].v \in HandlerModules
    /\ IF doc.m["handler"].v = "dns.zone.manager"
       THEN /\ ZoneManagerDocOK(doc)
            /\ \E picks \in InstancePicks(doc) : ZMProvision(DecodeZoneManager(doc), picks).ok
       ELSE /\ UpstreamResolverDocOK(doc)
            /\ URProvision(DecodeUpstreamResolver(doc)).ok

\* the defaults DNSServer.provision sets
ServerDefaults(s) ==
    [s EXCEPT !.Listen = IF s.Listen = <<>> THEN <<":53">> ELSE s.Listen,
              !.Protocol = IF s.Protocol = <<>> THEN <<"udp", "tcp">> ELSE s.Protocol]

\* the events of a generation gen of the configuration
EvProvisioned(gen, mod) == [e |-> "provision", gen |-> gen, mod |-> mod]
EvListen(gen, server, addr, net) ==
    [e |-> "listen", gen |-> gen, mod |-> <<"dns", server, addr, net>>]
EvShutdown(gen, server, addr, net) ==
    [e |-> "shutdown", gen |-> gen, mod |-> <<"dns", server, addr, net>>]
EvStop(gen, app) == [e |-> "stop", gen |-> gen, mod |-> <<app>>]
EvCancel(gen) == [e |-> "cancel", gen |-> gen, mod |-> <<>>]

\* DNSApp.Provision from the i-th server of the range order ord on: each
\* step is DNSServer.provision
RECURSIVE ProvisionServers(_, _, _, _, _)
ProvisionServers(gen, ord, i, servers, trace) ==
    IF i > Len(ord) THEN [ok |-> TRUE, servers |-> servers, trace |-> trace]
    ELSE IF servers[ord[i]].Handler = Null
    THEN ProvisionServers(gen, ord, i + 1,
                          [servers EXCEPT ![ord[i]] = ServerDefaults(@)], trace)
    ELSE IF ~HandlerLoads(servers[ord[i]].Handler)
    THEN [ok |-> FALSE, servers |-> [servers EXCEPT ![ord[i]] = ServerDefaults(@)],
          trace |-> trace]
    ELSE ProvisionServers(gen, ord, i + 1,
                          [servers EXCEPT ![ord[i]] = [ServerDefaults(@) EXCEPT !.handler = TRUE]],
                          Append(trace, EvProvisioned(gen, <<"dns", ord[i], "handler">>)))

\* the listeners DNSServer.start makes: one for each listen address and
\* protocol
Listeners(s) ==
    [k \in 1 .. Len(s.Listen) * Len(s.Protocol) |->
        <<s.Listen[((k - 1) \div Len(s.Protocol)) + 1], s.Protocol[((k - 1) % Len(s.Protocol)) + 1]>>]

\* DNSApp.Start from the i-th server of the range order ord on: each step
\* is DNSServer.start, which fails without a handler
RECURSIVE StartServers(_, _, _, _, _)
StartServers(gen, ord, i, servers, trace) ==
    IF i > Len(ord) THEN [ok |-> TRUE, servers |-> servers, trace |-> trace]
    ELSE IF ~servers[ord[i]].handler
    THEN [ok |-> FALSE, servers |-> servers, trace |-> trace]
    ELSE StartServers(gen, ord, i + 1,
                      [servers EXCEPT ![ord[i]].servers = @ \o Listeners(servers[ord[i]])],
                      trace \o [k \in DOMAIN Listeners(servers[ord[i]]) |->
                                   EvListen(gen, ord[i], Listeners(servers[ord[i]])[k][1],
                                            Listeners(servers[ord[i]])[k][2])])

\* DNSApp.Stop from the i-th server of the range order ord on: each step is
\* DNSServer.stop, which shuts every listener of s.servers down and forgets
\* them; a Shutdown error is logged and the loop goes on
RECURSIVE StopServers(_, _, _, _, _)
StopServers(gen, ord, i, servers, trace) ==
    IF i > Len(ord) THEN [servers |-> servers, trace |-> trace]
    ELSE StopServers(gen, ord, i + 1,
                     [servers EXCEPT ![ord[i]].servers = <<>>],
                     trace \o [k \in DOMAIN servers[ord[i]].servers |->
                                  EvShutdown(gen, ord[i], servers[ord[i]].servers[k][1],
                                             servers[ord[i]].servers[k][2])])

(***************************************************************************)
(* Configuration lifecycle (config.go): Load, startConfig, stopConfig,     *)
(* Stop.                                                                   *)
(***************************************************************************)
\* the modules that implement App
AppModules == {"dns"}

\* the modules SetupLogging can use
LogModules == {"logger.text", "logger.json"}

\* the modules of the registry
Registered == AppModules \cup HandlerModules \cup LogModules

\* a configuration document: whether it parses, the logging handler and
\* the apps, an app being the map of its servers
Config(logging, apps) == [parses |-> TRUE, null |-> FALSE, Logging |-> logging, Apps |-> apps]
NoConfig == [parses |-> TRUE, null |-> TRUE, Logging |-> "", Apps |-> EmptyMap]
BadConfig == [parses |-> FALSE, null |-> FALSE, Logging |-> "", Apps |-> EmptyMap]

\* getDefaultConfig
getDefaultConfig ==
    Config("logger.text",
           "dns" :> ("main" :> Server(<<":53">>, <<"udp", "tcp">>,
                                      Obj("handler" :> Str("dns.resolver.upstream")))))

\* SetupLogging for a configuration that names its handler: the handler is
\* registered and is a LogHandler
SetupLogging(logging) == logging \in LogModules

\* a generation: cfg.apps, and whether its context is cancelled
Generation(apps, cancelled) == [apps |-> apps, cancelled |-> cancelled]

\* the range orders a call draws: of cfg.Apps, of cfg.apps and of the
\* servers of an app, when loading, starting and stopping
Orders(apps, servers) ==
    [load : Perms(apps), start : Perms(apps), stop : Perms(apps),
     provision : Perms(servers), listen : Perms(servers), shutdown : Perms(servers)]

\* the subsequence of ord within the set S
Within(ord, S) == SelectSeq(ord, LAMBDA x : x \in S)

\* the end of startConfig
Started(ok, apps, trace) == [ok |-> ok, apps |-> apps, trace |-> trace]

\* the second loop of startConfig, over cfg.apps from the i-th app of the
\* order on: app.Start of each
RECURSIVE StartApps(_, _, _, _, _, _)
StartedApp(gen, ord, o, i, apps, r) ==
    IF ~r.ok THEN Started(FALSE, [apps EXCEPT ![ord[i]] = r.servers], r.trace)
    ELSE StartApps(gen, ord, o, i + 1, [apps EXCEPT ![ord[i]] = r.servers], r.trace)
StartApps(gen, ord, o, i, apps, trace) ==
    IF i > Len(ord) THEN Started(TRUE, apps, trace)
    ELSE StartedApp(gen, ord, o, i, apps,
                    StartServers(gen, Within(o.listen, DOMAIN apps[ord[i]]), 1,
                                 apps[ord[i]], trace))

\* the first loop of startConfig, over cfg.Apps from the i-th app of the
\* order on: LoadModule of each (the app name is the module id), which
\* makes a new instance, decodes the configuration into it and provisions it
RECURSIVE LoadApps(_, _, _, _, _, _)
LoadedApp(cfg, gen, o, i, apps, r) ==
    IF ~r.ok THEN Started(FALSE, apps, r.trace)
    ELSE LoadApps(cfg, gen, o, i + 1,
                  [n \in DOMAIN apps \cup {Within(o.load, DOMAIN cfg.Apps)[i]} |->
                      IF n \in DOMAIN apps THEN apps[n] ELSE r.servers],
                  Append(r.trace, EvProvisioned(gen, <<"dns">>)))
LoadApps(cfg, gen, o, i, apps, trace) ==
    IF i > Len(Within(o.load, DOMAIN cfg.Apps))
    THEN StartApps(gen, Within(o.start, DOMAIN apps), o, 1, apps, trace)
    ELSE IF Within(o.load, DOMAIN cfg.Apps)[i] \notin Registered
    THEN Started(FALSE, apps, trace)
    ELSE IF Within(o.load, DOMAIN cfg.Apps)[i] \notin AppModules
    THEN Started(FALSE, apps,
                 Append(trace, EvProvisioned(gen, <<Within(o.load, DOMAIN cfg.Apps)[i]>>)))
    ELSE LoadedApp(cfg, gen, o, i, apps,
                   ProvisionServers(gen, Within(o.provision,
                                                DOMAIN cfg.Apps[Within(o.load, DOMAIN cfg.Apps)[i]]),
                                    1, cfg.Apps[Within(o.load, DOMAIN cfg.Apps)[i]], trace))

\* startConfig
startConfig(cfg, gen, o, trace) ==
    IF ~SetupLogging(cfg.Logging) THEN Started(FALSE, EmptyMap, trace)
    ELSE LoadApps(cfg, gen, o, 1, EmptyMap,
                  Append(trace, EvProvisioned(gen, <<"logging", cfg.Logging>>)))

\* stopConfig: the loop over cfg.apps from the i-th app of the order on,
\* app.Stop of each, and then the cancellation of the context
RECURSIVE StopApps(_, _, _, _, _, _)
StoppedApp(gen, ord, o, i, apps, r) ==
    StopApps(gen, ord, o, i + 1, [apps EXCEPT ![ord[i]] = r.servers], r.trace)
StopApps(gen, ord, o, i, apps, trace) ==
    IF i > Len(ord) THEN [apps |-> apps, trace |-> Append(trace, EvCancel(gen))]
    ELSE StoppedApp(gen, ord, o, i, apps,
                    StopServers(gen, Within(o.shutdown, DOMAIN apps[ord[i]]), 1, apps[ord[i]],
                                Append(trace, EvStop(gen, ord[i]))))

stopConfig(gens, gen, o, trace) ==
    StopApps(gen, Within(o.stop, DOMAIN gens[gen].apps), o, 1, gens[gen].apps, trace)

(***************************************************************************)
(* The lifecycle on its own: configurations, Load, Stop.                   *)
(***************************************************************************)
\* at most MaxLoads generations are started in a behaviour
MaxLoads == 2

HUpstream == Obj("handler" :> Str("dns.resolver.upstream") @@ "upstreams" :> Arr(<<Str("9.9.9.9:53")>>))
HUnknown == Obj("handler" :> Str("dns.cache"))
HBadProtocol == Obj("handler" :> Str("dns.resolver.upstream") @@ "protocol" :> Str("quic"))

MainOnly == "main" :> Server(<<>>, <<>>, BZoneA)
MainAnd(alt) == "main" :> Server(<<":53">>, <<"udp">>, BZoneA) @@ "alt" :> alt

LConfigs ==
    { NoConfig, BadConfig,
      Config("logger.text", EmptyMap),
      Config("logger.text", "dns" :> MainOnly),
      Config("logger.json", "dns" :> MainAnd(Server(<<":5353">>, <<"udp">>, HUpstream))),
      Config("logger.text", "dns" :> MainAnd(Server(<<":5353">>, <<"udp">>, Null))),
      Config("logger.text", "dns" :> MainAnd(Server(<<":5353">>, <<"udp">>, HUnknown))),
      Config("logger.text", "dns" :> MainAnd(Server(<<":5353">>, <<"udp">>, HBadProtocol))),
      Config("logger.text", "dns" :> MainOnly @@ "dns.zone.manager" :> EmptyMap),
      Config("logger.text", "dns" :> MainOnly @@ "dns.app" :> EmptyMap),
      Config("logger.console", "dns" :> MainOnly) }

\* the servers of the apps of a configuration
ServerNames(cfg) == UNION {DOMAIN cfg.Apps[a] : a \in DOMAIN cfg.Apps}

\* the last call: its operation, the generation it started and the one that
\* was current, its outcome, and the length of the trace when it began
Call(op, gen, old, err, from) == [op |-> op, gen |-> gen, old |-> old, err |-> err, from |-> from]

LStart ==
    /\ lCurrent = 0
    /\ lGens = <<>>
    /\ lTrace = <<>>
    /\ lLast = Call("none", 0, 0, FALSE, 0)

\* the configuration Load parses: the default one for an empty document
Parsed(doc) == IF doc.null THEN getDefaultConfig ELSE doc

\* the end of Load: startConfig has come to r
LoadStarted(old, gens, r) ==
    /\ lGens' = Append(gens, Generation(r.apps, FALSE))
    /\ lTrace' = r.trace
    /\ lCurrent' = IF r.ok THEN Len(gens) + 1 ELSE old
    /\ lLast' = Call("Load", Len(gens) + 1, old, ~r.ok, Len(lTrace))

\* Load once stopConfig has come to s for the current generation
LoadStopped(cfg, o, s) ==
    LoadStarted(lCurrent, [lGens EXCEPT ![lCurrent] = Generation(s.apps, TRUE)],
                startConfig(cfg, Len(lGens) + 1, o, s.trace))

\* Load(cfgJSON, forceReload), under configMu
LLoad ==
    /\ Len(lGens) < MaxLoads
    /\ \E doc \in LConfigs :
         IF ~doc.parses
         THEN /\ lLast' = Call("Load", 0, lCurrent, TRUE, Len(lTrace))
              /\ UNCHANGED <<lCurrent, lGens, lTrace>>
         ELSE \E o \in Orders(DOMAIN Parsed(doc).Apps \cup (IF lCurrent = 0 THEN {} ELSE DOMAIN lGens[lCurrent].apps),
                              ServerNames(Parsed(doc)) \cup {"main", "alt"}) :
                IF lCurrent # 0
                THEN LoadStopped(Parsed(doc), o, stopConfig(lGens, lCurrent, o, lTrace))
                ELSE LoadStarted(0, lGens, startConfig(Parsed(doc), Len(lGens) + 1, o, lTrace))
    /\ UNCHANGED <<cvars, zvars, ovars, pvars, uvars, svars, rvars, dvars>>

\* the end of Stop: stopConfig has come to s for the current generation
Stopped(s) ==
    /\ lGens' = [lGens EXCEPT ![lCurrent] = Generation(s.apps, TRUE)]
    /\ lTrace' = s.trace
    /\ lCurrent' = 0
    /\ lLast' = Call("Stop", 0, lCurrent, FALSE, Len(lTrace))

\* Stop(), under configMu
LStop ==
    /\ lLast.op # "Stop"
    /\ IF lCurrent = 0
       THEN /\ lLast' = Call("Stop", 0, 0, FALSE, Len(lTrace))
            /\ UNCHANGED <<lCurrent, lGens, lTrace>>
       ELSE \E o \in Orders(DOMAIN lGens[lCurrent].apps, {"main", "alt"}) :
              Stopped(stopConfig(lGens, lCurrent, o, lTrace))
    /\ UNCHANGED <<cvars, zvars, ovars, pvars, uvars, svars, rvars, dvars>>

(***************************************************************************)
(* Upstream resolver: ServeDNS.                                            *)
(***************************************************************************)
\* what dns.Client.ExchangeContext returns for a target: a transport error,
\* a nil response without an error, or a response with its rcode and id
ExchangeError == [kind |-> "error", rcode |-> "", id |-> 0]
ExchangeNil == [kind |-> "nil", rcode |-> "", id |-> 0]
ExchangeResponse(rcode, id) == [kind |-> "resp", rcode |-> rcode, id |-> id]

\* a request message
Request(id, hasQuestion) == [id |-> id, hasQuestion |-> hasQuestion]

\* a reply written to the client: its rcode, its id and the target it is from
EvReply(rcode, id, from) == [e |-> "write", rcode |-> rcode, id |-> id, from |-> from]

\* a resolver that writes the response as it came
KeepId(respId, reqId) == respId

\* resp.Id = r.Id
SetId(respId, reqId) == reqId

\* the loop of ServeDNS over u.Upstreams from the i-th target on, and the
\* SERVFAIL reply after it; outcome[i] is what the i-th exchange returns
RECURSIVE URExchange(_, _, _, _, _, _)
URExchange(u, r, outcome, wfail, i, ev) ==
    IF i > Len(u.Upstreams)
    THEN [ev |-> Append(ev, EvReply("SERVFAIL", r.id, "")), err |-> wfail]
    ELSE IF outcome[i].kind = "resp"
    THEN [ev |-> ev \o <<EvExchange(u.Upstreams[i]),
                         EvReply(outcome[i].rcode, SetId(outcome[i].id, r.id), u.Upstreams[i])>>,
          err |-> wfail]
    ELSE URExchange(u, r, outcome, wfail, i + 1, Append(ev, EvExchange(u.Upstreams[i])))

\* UpstreamResolver.ServeDNS
URServeDNS(u, r, outcome, wfail) == URExchange(u, r, outcome, wfail, 1, <<>>)

(***************************************************************************)
(* The upstream resolver on its own: configurations, Provision, ServeDNS.  *)
(***************************************************************************)
UpstreamLists ==
    { <<>>, <<"9.9.9.9:53">>, <<"10.0.0.1:53", "9.9.9.9:53">>,
      <<"10.0.0.1:53", "9.9.9.9:53", "10.0.0.1:53">>, <<"9.9.9.9:53", "no-port">> }

UpstreamResolverConfigs ==
    {UpstreamResolver(us, t, p) : us \in UpstreamLists, t \in {"", "soon"}, p \in {"", "tcp", "quic"}}

Requests == {Request(7, TRUE), Request(7, FALSE)}

ExchangeOutcomes ==
    {ExchangeError, ExchangeNil} \cup
    {ExchangeResponse(rc, id) : rc \in {"NOERROR", "NXDOMAIN"}, id \in {7, 8}}

UStart(configs) ==
    /\ uCfg \in configs
    /\ uState = "new"
    /\ uRes = URProvision(UpstreamResolver(<<>>, "", ""))
    /\ uReq = Request(0, FALSE)
    /\ uOutcome = <<>>
    /\ uWfail = FALSE
    /\ uOut = [ev |-> <<>>, err |-> FALSE]

\* UpstreamResolver.Provision
UProvision ==
    /\ uState = "new"
    /\ uRes' = URProvision(uCfg)
    /\ uState' = IF URProvision(uCfg).ok THEN "provisioned" ELSE "failed"
    /\ UNCHANGED <<uCfg, uReq, uOutcome, uWfail, uOut>>
    /\ UNCHANGED <<cvars, zvars, ovars, pvars, lvars, svars, rvars, dvars>>

\* UpstreamResolver.ServeDNS; as the resolver keeps nothing from one query
\* to the next, a behaviour follows one query
UServeDNS ==
    /\ uState = "provisioned"
    /\ \E r \in Requests, wfail \in BOOLEAN,
          outcome \in [1 .. Len(uRes.Upstreams) -> ExchangeOutcomes] :
         /\ uReq' = r
         /\ uWfail' = wfail
         /\ uOutcome' = outcome
         /\ uOut' = URServeDNS(uRes, r, outcome, wfail)
    /\ uState' = "served"
    /\ UNCHANGED <<uCfg, uRes>>
    /\ UNCHANGED <<cvars, zvars, ovars, pvars, lvars, svars, rvars, dvars>>

(***************************************************************************)
(* A DNS server and the messages it serves (module/dns/app.go).            *)
(***************************************************************************)
\* the server leaves the error of its handler to the client
SwallowsError(err) == FALSE

\* a server that replies SERVFAIL after every handler call
AlwaysFailed(err) == TRUE

\* handler.ServeDNS returned an error
HandlerFailed(err) == err

\* DNSServer.ServeDNS for the message r: without a handler the reply is
\* SERVFAIL; otherwise the root handler serves it, and the server writes a
\* SERVFAIL reply when the handler returns an error.  wfail is whether the
\* writes of the handler fail
DNSServerServeDNS(s, root, r, outcome, wfail) ==
    IF ~s.handler
    THEN [req |-> r, herr |-> FALSE, ev |-> <<EvReply("SERVFAIL", r.id, "")>>]
    ELSE [req |-> r, herr |-> URServeDNS(root, r, outcome, wfail).err,
          ev |-> IF HandlerFailed(URServeDNS(root, r, outcome, wfail).err)
                 THEN Append(URServeDNS(root, r, outcome, wfail).ev,
                             EvReply("SERVFAIL", r.id, ""))
                 ELSE URServeDNS(root, r, outcome, wfail).ev]

\* the server may be asked up to MaxQueries times
MaxQueries == 2

HTwoUpstreams ==
    Obj("handler" :> Str("dns.resolver.upstream")
        @@ "upstreams" :> Arr(<<Str("10.0.0.1:53"), Str("9.9.9.9:53")>>))

ServerConfigs ==
    { Server(<<>>, <<>>, Null), Server(<<>>, <<>>, HUpstream),
      Server(<<":5353">>, <<"udp">>, HTwoUpstreams), Server(<<":5353">>, <<"udp">>, HBadProtocol) }

ServerRequests == {Request(7, TRUE), Request(8, TRUE)}

ServerOutcomes == {ExchangeError, ExchangeResponse("NOERROR", 9)}

SStart(configs) ==
    /\ sServer \in configs
    /\ sRoot = URProvision(UpstreamResolver(<<>>, "", ""))
    /\ sState = "new"
    /\ sLog = <<>>

\* DNSServer.provision with a resolver for a handler
SProvision ==
    /\ sState = "new"
    /\ IF sServer.Handler = Null
       THEN /\ sServer' = ServerDefaults(sServer)
            /\ sState' = "provisioned"
            /\ UNCHANGED sRoot
       ELSE IF ~HandlerLoads(sServer.Handler)
       THEN /\ sServer' = ServerDefaults(sServer)
            /\ sState' = "failed"
            /\ UNCHANGED sRoot
       ELSE /\ sServer' = [ServerDefaults(sServer) EXCEPT !.handler = TRUE]
            /\ sRoot' = URProvision(DecodeUpstreamResolver(sServer.Handler))
            /\ sState' = "provisioned"
    /\ UNCHANGED sLog
    /\ UNCHANGED <<cvars, zvars, ovars, pvars, lvars, uvars, rvars, dvars>>

\* DNSServer.start: an error without a handler, and otherwise a listener
\* for each listen address and protocol
SStartServer ==
    /\ sState = "provisioned"
    /\ IF ~sServer.handler
       THEN sState' = "unstarted" /\ UNCHANGED sServer
       ELSE /\ sState' = "started"
            /\ sServer' = [sServer EXCEPT !.servers = @ \o Listeners(sServer)]
    /\ UNCHANGED <<sRoot, sLog>>
    /\ UNCHANGED <<cvars, zvars, ovars, pvars, lvars, uvars, rvars, dvars>>

\* DNSServer.ServeDNS, called by a listener of the server or, as the tests
\* do, on a server that was never started
SServeDNS ==
    /\ sState \in {"provisioned", "started", "unstarted"}
    /\ Len(sLog) < MaxQueries
    /\ \E r \in ServerRequests, wfail \in BOOLEAN,
          outcome \in [1 .. Len(sRoot.Upstreams) -> ServerOutcomes] :
         sLog' = Append(sLog, DNSServerServeDNS(sServer, sRoot, r, outcome, wfail))
    /\ UNCHANGED <<sServer, sRoot, sState>>
    /\ UNCHANGED <<cvars, zvars, ovars, pvars, lvars, uvars, rvars, dvars>>

(***************************************************************************)
(* The module registry (module.go).                                        *)
(***************************************************************************)
\* what MightyModule returns: the id and the constructor of the module
ModuleInfo(id, new) == [ID |-> id, New |-> new]

\* a registry that takes every id for new
NeverExists(mods, id) == FALSE

\* _, exists := modules[info.ID]
Exists(mods, id) == id \in DOMAIN mods

\* RegisterModule: panics when the id is registered, and otherwise stores
\* the info under its id
RegisterModule(mods, info) ==
    IF Exists(mods, info.ID)
    THEN [panic |-> TRUE, modules |-> mods]
    ELSE [panic |-> FALSE,
          modules |-> [id \in DOMAIN mods \cup {info.ID} |->
                          IF id = info.ID THEN info ELSE mods[id]]]

\* up to MaxRegisters calls of RegisterModule are made
MaxRegisters == 3

ModuleInfos ==
    {ModuleInfo(id, new) : id \in {"dns", "policy", "test.module"},
                           new \in {"first", "second"}}

RStart ==
    /\ modules = EmptyMap
    /\ rCalls = <<>>

\* a call of RegisterModule; a panic is recovered from, as the tests do
RRegister ==
    /\ Len(rCalls) < MaxRegisters
    /\ \E info \in ModuleInfos :
         /\ modules' = RegisterModule(modules, info).modules
         /\ rCalls' = Append(rCalls, [info |-> info, panic |-> RegisterModule(modules, info).panic])
    /\ UNCHANGED <<cvars, zvars, ovars, pvars, lvars, uvars, svars, dvars>>

(***************************************************************************)
(* Queries served in parallel by a DNS server whose root handler is a      *)
(* policy handler: each listener goroutine runs DNSServer.ServeDNS for its *)
(* query, and the calls interleave between their reads of the handlers.    *)
(***************************************************************************)
\* a handler that keeps the client group in a field the calls share
LastGroup(own, last) == last

\* clientGroup is a local variable of the ServeDNS call
CallGroup(own, last) == own

\* up to MaxParallel calls are in flight
MaxParallel == 2

DispatchConfigs ==
    {[BaseHandler |-> BZoneA, ClientGroups |-> PGroups, Policies |-> ps] :
        ps \in {<<Policy("internal", OZoneA)>>,
                <<Policy("internal", OZones), Policy("external", EmptyMap)>>}}

DispatchIPs == {NilIP, 1, 5}

DispatchQueries == {NoQuestion, Question("w.a.com.", "A")}

\* a call that has just entered ServeDNS
Entered(ip, q) ==
    [pc |-> "classify", ip |-> ip, q |-> q, clientGroup |-> "", selected |-> 0,
     out |-> NoPOut, ev |-> <<>>]

DStart ==
    /\ dUp \in {{}, {"9.9.9.9:53"}}
    /\ dWfail \in BOOLEAN
    /\ dCalls = <<>>
    /\ dLast = ""

\* a listener reads a query and calls DNSServer.ServeDNS, which reads
\* s.handler under the read lock
DDispatch ==
    /\ pState = "provisioned"
    /\ Len(dCalls) < MaxParallel
    /\ \E ip \in DispatchIPs, q \in DispatchQueries : dCalls' = Append(dCalls, Entered(ip, q))
    /\ UNCHANGED <<dUp, dWfail, dLast>>
    /\ UNCHANGED <<cvars, zvars, ovars, pvars, lvars, uvars, svars, rvars>>

\* PolicyHandler.ServeDNS, first part: p.classifier.ClassifyDNSRequest(w)
DClassify ==
    /\ \E k \in DOMAIN dCalls, ord \in SortedOrders(pCompiled) :
         /\ dCalls[k].pc = "classify"
         /\ dCalls' = [dCalls EXCEPT ![k].pc = "select",
                                     ![k].clientGroup = ClassifyIP(pCompiled, ord, dCalls[k].ip)]
         /\ dLast' = ClassifyIP(pCompiled, ord, dCalls[k].ip)
    /\ UNCHANGED <<dUp, dWfail>>
    /\ UNCHANGED <<cvars, zvars, ovars, pvars, lvars, uvars, svars, rvars>>

\* PolicyHandler.ServeDNS, second part: the handler of the group is looked
\* up in p.policyTrees
DSelect ==
    /\ \E k \in DOMAIN dCalls :
         /\ dCalls[k].pc = "select"
         /\ dCalls' = [dCalls EXCEPT
                ![k].pc = "serve",
                ![k].selected = SelectHandler(pPolicyTrees, pBaseHandler,
                                              CallGroup(dCalls[k].clientGroup, dLast))]
    /\ UNCHANGED <<dUp, dWfail, dLast>>
    /\ UNCHANGED <<cvars, zvars, ovars, pvars, lvars, uvars, svars, rvars>>

\* the selected handler serves the query, and DNSServer.ServeDNS writes a
\* SERVFAIL reply when it returns an error
DServe ==
    /\ \E k \in {j \in DOMAIN dCalls : dCalls[j].pc = "serve"} :
         \E zord \in ZoneOrders(pInstances[dCalls[k].selected].baseZones) :
           /\ dCalls[k].pc = "serve"
           /\ dCalls' = [dCalls EXCEPT
                  ![k].pc = "done",
                  ![k].out = Routed(pInstances, dCalls[k].selected, dCalls[k].clientGroup,
                                    dCalls[k].q, zord, dUp, dWfail),
                  ![k].ev = IF HandlerFailed(Routed(pInstances, dCalls[k].selected,
                                                    dCalls[k].clientGroup, dCalls[k].q,
                                                    zord, dUp, dWfail).err)
                            THEN Append(Routed(pInstances, dCalls[k].selected,
                                               dCalls[k].clientGroup, dCalls[k].q,
                                               zord, dUp, dWfail).ev,
                                        EvWrite("SERVFAIL", "", 0))
                            ELSE Routed(pInstances, dCalls[k].selected, dCalls[k].clientGroup,
                                        dCalls[k].q, zord, dUp, dWfail).ev]
    /\ UNCHANGED <<dUp, dWfail, dLast>>
    /\ UNCHANGED <<cvars, zvars, ovars, pvars, lvars, uvars, svars, rvars>>

(***************************************************************************)
(* Specifications.                                                         *)
(***************************************************************************)
\* a classifier with one group, for the specifications about other parts
FixedClassifier == {("internal" :> [Sources |-> <<SrcCIDR(4, 1)>>, Priority |-> 1])}

\* a zone manager without zones, for the specifications about other parts
FixedZoneManager == {[Zones |-> <<>>, DefaultUpstream |-> NilUpstream]}

\* a base document without overrides to apply, for the other specifications
FixedBase == {Obj("handler" :> Str("dns.zone.manager"))}

\* an upstream resolver left alone, for the other specifications
FixedResolver == {UpstreamResolver(<<>>, "", "")}

\* a server left alone, for the other specifications
FixedServer == {Server(<<>>, <<>>, Null)}

\* a policy handler left alone, for the other specifications
FixedPolicy == {[BaseHandler |-> BZoneA, ClientGroups |-> PGroups, Policies |-> <<>>]}

CInit ==
    CStart(ClassifierConfigs) /\ ZStart(FixedZoneManager) /\ OStart(FixedBase)
        /\ PStart(FixedPolicy) /\ LStart /\ UStart(FixedResolver)
        /\ SStart(FixedServer) /\ RStart /\ DStart
CNext == CProvision \/ CClassify
SpecClassifier == CInit /\ [][CNext]_vars

ZInit ==
    CStart(FixedClassifier) /\ ZStart(ZoneManagerConfigs) /\ OStart(FixedBase)
        /\ PStart(FixedPolicy) /\ LStart /\ UStart(FixedResolver)
        /\ SStart(FixedServer) /\ RStart /\ DStart
ZNext == ZProvision \/ ZServeDNS \/ ZResolve
SpecZone == ZInit /\ [][ZNext]_vars

OInit ==
    CStart(FixedClassifier) /\ ZStart(FixedZoneManager) /\ OStart(BaseDocs)
        /\ PStart(FixedPolicy) /\ LStart /\ UStart(FixedResolver)
        /\ SStart(FixedServer) /\ RStart /\ DStart
ONext == ODecodeBase \/ ODeepCopy \/ OApplyOverrides
SpecOverride == OInit /\ [][ONext]_vars

PInit ==
    CStart(FixedClassifier) /\ ZStart(FixedZoneManager) /\ OStart(FixedBase)
        /\ PStart(PolicyConfigs) /\ LStart /\ UStart(FixedResolver)
        /\ SStart(FixedServer) /\ RStart /\ DStart
PNext == PProvision \/ PServeDNS \/ PCleanup
SpecPolicy == PInit /\ [][PNext]_vars

LInit ==
    CStart(FixedClassifier) /\ ZStart(FixedZoneManager) /\ OStart(FixedBase)
        /\ PStart(FixedPolicy) /\ LStart /\ UStart(FixedResolver)
        /\ SStart(FixedServer) /\ RStart /\ DStart
LNext == LLoad \/ LStop
SpecLifecycle == LInit /\ [][LNext]_vars

UInit ==
    CStart(FixedClassifier) /\ ZStart(FixedZoneManager) /\ OStart(FixedBase)
        /\ PStart(FixedPolicy) /\ LStart /\ UStart(UpstreamResolverConfigs)
        /\ SStart(FixedServer) /\ RStart /\ DStart
UNext == UProvision \/ UServeDNS
SpecUpstream == UInit /\ [][UNext]_vars

SInit ==
    CStart(FixedClassifier) /\ ZStart(FixedZoneManager) /\ OStart(FixedBase)
        /\ PStart(FixedPolicy) /\ LStart /\ UStart(FixedResolver)
        /\ SStart(ServerConfigs) /\ RStart /\ DStart
SNext == SProvision \/ SStartServer \/ SServeDNS
SpecServer == SInit /\ [][SNext]_vars

RInit ==
    CStart(FixedClassifier) /\ ZStart(FixedZoneManager) /\ OStart(FixedBase)
        /\ PStart(FixedPolicy) /\ LStart /\ UStart(FixedResolver)
        /\ SStart(FixedServer) /\ RStart /\ DStart
RNext == RRegister
SpecRegistry == RInit /\ [][RNext]_vars

DInit ==
    CStart(FixedClassifier) /\ ZStart(FixedZoneManager) /\ OStart(FixedBase)
        /\ PStart(DispatchConfigs) /\ LStart /\ UStart(FixedResolver)
        /\ SStart(FixedServer) /\ RStart /\ DStart
DNext == PProvision \/ DDispatch \/ DClassify \/ DSelect \/ DServe
SpecDispatch == DInit /\ [][DNext]_vars

\* a zone manager and an upstream resolver side by side, with upstream
\* targets that are not of host:port form in their configurations
TargetManagers ==
    { [Zones |-> <<ZoneCfg("forward", "b.a.com.", ("x.b.a.com." :> Rec("TXT", "world")),
                           Upstream(<<"no-port", "10.0.0.1:53">>))>>,
       DefaultUpstream |-> Upstream(<<"no-port", "9.9.9.9:53">>)],
      [Zones |-> <<>>, DefaultUpstream |-> Upstream(<<"9.9.9.9:53">>)] }

TargetResolvers ==
    {UpstreamResolver(<<"9.9.9.9:53", "no-port">>, "", ""), UpstreamResolver(<<"9.9.9.9:53">>, "", "")}

TInit ==
    CStart(FixedClassifier) /\ ZStart(TargetManagers) /\ OStart(FixedBase)
        /\ PStart(FixedPolicy) /\ LStart /\ UStart(TargetResolvers)
        /\ SStart(FixedServer) /\ RStart /\ DStart
TNext == ZProvision \/ ZServeDNS \/ UProvision \/ UServeDNS
SpecTargets == TInit /\ [][TNext]_vars


(***************************************************************************)
(* Claims about the classifier.                                            *)
(***************************************************************************)
\* a configured source against a client IP, read off the configuration
SourceCovers(src, ip) ==
    /\ src.valid
    /\ ip # NilIP
    /\ IF src.cidr
       THEN ip \div Pow2(IPBits - src.bits) = src.ip \div Pow2(IPBits - src.bits)
       ELSE ip = src.ip

\* the groups of the configuration having a source that matches ip
MatchingGroups(groups, ip) ==
    {n \in DOMAIN groups :
        \E i \in DOMAIN groups[n].Sources : SourceCovers(groups[n].Sources[i], ip)}

\* C1: the name ClassifyIP returns is a matching group of minimum priority
\* among the matching groups (one of them on a tie); it is the empty string
\* when no group matches or the IP is nil.
C1_ClassifyMinPriority ==
    cState = "provisioned" =>
        LET G == MatchingGroups(cGroups, cIP)
        IN IF cIP = NilIP \/ G = {}
           THEN cResult = ""
           ELSE /\ cResult \in G
                /\ \A g \in G : cGroups[cResult].Priority <= cGroups[g].Priority

\* a classification where two matching groups tie on the minimum priority
\* and a third matching group has a larger one
C1_Witness ==
    /\ cState = "provisioned"
    /\ cResult # ""
    /\ LET G == MatchingGroups(cGroups, cIP)
       IN /\ \E g \in G : g # cResult /\ cGroups[g].Priority = cGroups[cResult].Priority
          /\ \E g \in G : cGroups[g].Priority > cGroups[cResult].Priority

(***************************************************************************)
(* Claims about the zone manager.                                          *)
(***************************************************************************)
\* the zones Resolve was called on during the query, in call order
ResolvedZones(ev) == SelectSeq(ev, LAMBDA e : e.e = "resolve")

\* the configured zones whose name matches the query name
MatchingZones(baseZones, qname) ==
    {n \in DOMAIN baseZones : isSubdomain(qname, n)}

\* C2: the zones matching the query name are evaluated in descending order
\* of zone-name length: Resolve is called first on the matching zone with
\* the longest name, and never on a longer zone after a shorter one.
C2_LongestZoneFirst ==
    (zState = "served" /\ zQuery.hasQuestion) =>
        LET rs == ResolvedZones(zOut.ev)
            Zq == MatchingZones(zmgr.baseZones, zQuery.name)
        IN /\ \A i, j \in DOMAIN rs : i < j => StrLen(rs[i].zone) > StrLen(rs[j].zone)
           /\ Zq # {} => /\ rs # <<>>
                         /\ \A n \in Zq : StrLen(n) <= StrLen(rs[1].zone)

\* C4: the client group of a query is the ClientGroupKey value of its
\* context when that is a non-empty string, and "default" otherwise.
C4_GroupFromContext ==
    (zState = "served" /\ zQuery.hasQuestion) =>
        zOut.group = IF zCtx.has /\ zCtx.str /\ zCtx.val # "" THEN zCtx.val ELSE "default"

(***************************************************************************)
(* Claims about applyOverrides.  Nodes of a document are named by their    *)
(* path from the root: a step is a key of an object or an index of an      *)
(* array.                                                                  *)
(***************************************************************************)
KeyStep(k) == [k |-> k, i |-> 0]
IndexStep(i) == [k |-> "", i |-> i]

Steps(d) ==
    IF d.t = "obj" THEN {KeyStep(k) : k \in DOMAIN d.m}
    ELSE IF d.t = "arr" THEN {IndexStep(i) : i \in DOMAIN d.s}
    ELSE {}

Child(d, st) == IF st.i = 0 THEN d.m[st.k] ELSE d.s[st.i]

RECURSIVE Paths(_)
Paths(d) == {<<>>} \cup UNION {{<<st>> \o p : p \in Paths(Child(d, st))} : st \in Steps(d)}

RECURSIVE Defined(_, _)
Defined(d, p) == p = <<>> \/ (Head(p) \in Steps(d) /\ Defined(Child(d, Head(p)), Tail(p)))

RECURSIVE At(_, _)
At(d, p) == IF p = <<>> THEN d ELSE At(Child(d, Head(p)), Tail(p))

ObjPaths(d) == {p \in Paths(d) : At(d, p).t = "obj"}

IsScalar(d) == d.t \in {"str", "num", "null"}

\* the object node n carries a handler id that is a key of O
Overridden(n, O) ==
    /\ "handler" \in DOMAIN n.m
    /\ n.m["handler"].t = "str"
    /\ n.m["handler"].v \in DOMAIN O

\* the keys the override of the node n sets
OverrideKeys(n, O) ==
    IF Overridden(n, O) /\ O[n.m["handler"].v].t = "obj"
    THEN DOMAIN O[n.m["handler"].v].m
    ELSE {}

\* the node at p lies under a key that the override of one of its ancestors sets
Replaced(B, O, p) ==
    \E i \in 1 .. Len(p) :
        /\ p[i].i = 0
        /\ At(B, SubSeq(p, 1, i - 1)).t = "obj"
        /\ p[i].k \in OverrideKeys(At(B, SubSeq(p, 1, i - 1)), O)

\* no object node of d carries a handler id that is a key of O
Plain(d, O) == \A p \in ObjPaths(d) : ~Overridden(At(d, p), O)

\* two object nodes with the same own keys and the same scalar values
SameOwn(n1, n2) ==
    /\ DOMAIN n1.m = DOMAIN n2.m
    /\ \A k \in DOMAIN n1.m : (IsScalar(n1.m[k]) \/ IsScalar(n2.m[k])) => n1.m[k] = n2.m[k]

\* C5 as stated: every object node of the result whose handler id is not a
\* key of O (or that has no string handler) has the own keys and scalar
\* values of the node of the base document at the same path.
C5_FrameOfResult ==
    oState = "applied" =>
        \A p \in ObjPaths(oResult) :
            ~Overridden(At(oResult, p), oOverrides) =>
                /\ Defined(oBase, p)
                /\ At(oBase, p).t = "obj"
                /\ SameOwn(At(oResult, p), At(oBase, p))

\* C5, amended: every object node of the base document whose handler id is
\* not a key of O (or that has no string handler), and that does not lie
\* under a key set by the override of an ancestor, is in the result at the
\* same path with the same own keys and scalar values.
C5_FrameOfBase ==
    oState = "applied" =>
        \A p \in ObjPaths(oBase) :
            (~Overridden(At(oBase, p), oOverrides) /\ ~Replaced(oBase, oOverrides, p)) =>
                /\ Defined(oResult, p)
                /\ At(oResult, p).t = "obj"
                /\ SameOwn(At(oResult, p), At(oBase, p))

\* a result that differs from the base document below a node that is not
\* overridden itself
C5_Witness ==
    /\ oState = "applied"
    /\ \E p \in ObjPaths(oBase) :
        /\ ~Overridden(At(oBase, p), oOverrides)
        /\ ~Replaced(oBase, oOverrides, p)
        /\ Defined(oResult, p)
        /\ At(oResult, p) # At(oBase, p)

\* C6: applyOverrides returns, and for every object node of the base
\* document whose handler id is a key of O (at any depth, outside the values
\* an ancestor's override replaces), every key k of O[id] other than zones
\* on dns.zone.manager has exactly the value O[id][k] in the result, and
\* every other key of the node keeps its base value (a value that holds no
\* overridden node is unchanged).
C6_MergeAtEveryDepth ==
    /\ oState # "crashed"
    /\ oState = "applied" =>
        \A p \in ObjPaths(oBase) :
            (Overridden(At(oBase, p), oOverrides) /\ ~Replaced(oBase, oOverrides, p)) =>
                /\ Defined(oResult, p)
                /\ At(oResult, p).t = "obj"
                /\ LET id == At(oBase, p).m["handler"].v
                       set == OverrideKeys(At(oBase, p), oOverrides)
                   IN /\ \A k \in set :
                            ~(k = "zones" /\ id = "dns.zone.manager") =>
                                /\ k \in DOMAIN At(oResult, p).m
                                /\ At(oResult, p).m[k] = oOverrides[id].m[k]
                      /\ \A k \in DOMAIN At(oBase, p).m \ set :
                            /\ k \in DOMAIN At(oResult, p).m
                            /\ Plain(At(oBase, p).m[k], oOverrides) =>
                                    At(oResult, p).m[k] = At(oBase, p).m[k]

\* the zone names of the entries of a zones array, in order (entries that
\* are not objects with a string "zone" have none)
ZoneNames(zones) ==
    [i \in {j \in DOMAIN zones.s :
                /\ zones.s[j].t = "obj"
                /\ "zone" \in DOMAIN zones.s[j].m
                /\ zones.s[j].m["zone"].t = "str"} |-> zones.s[i].m["zone"].v]

NameSet(zones) == {ZoneNames(zones)[i] : i \in DOMAIN ZoneNames(zones)}

\* the last entry of the zones array with the name n
LastNamed(zones, n) ==
    zones.s[CHOOSE i \in DOMAIN ZoneNames(zones) :
                /\ ZoneNames(zones)[i] = n
                /\ \A j \in DOMAIN ZoneNames(zones) : ZoneNames(zones)[j] = n => j <= i]

HasZonesArray(n) == "zones" \in DOMAIN n.m /\ n.m["zones"].t = "arr"

\* the paths of the dns.zone.manager nodes of the base document into which
\* an override with a zones array is merged
ZoneOverridden(B, O) ==
    {p \in ObjPaths(B) :
        /\ Overridden(At(B, p), O)
        /\ At(B, p).m["handler"].v = "dns.zone.manager"
        /\ "zones" \in OverrideKeys(At(B, p), O)
        /\ O["dns.zone.manager"].m["zones"].t = "arr"
        /\ ~Replaced(B, O, p)
        /\ \A i \in 1 .. Len(p) - 1 : ~(p[i].i > 0 /\ p[i + 1].i > 0)}

\* the zones of the result node r are the union of the base zones b and the
\* override zones o: every entry is named, each name once, the override's
\* entry for its names and the base's for the others
ZonesUnion(r, b, o) ==
    /\ r.t = "arr"
    /\ DOMAIN ZoneNames(r) = DOMAIN r.s
    /\ NameSet(r) = NameSet(b) \cup NameSet(o)
    /\ \A i, j \in DOMAIN r.s : ZoneNames(r)[i] = ZoneNames(r)[j] => i = j
    /\ \A i \in DOMAIN r.s :
          r.s[i] = IF ZoneNames(r)[i] \in NameSet(o)
                   THEN LastNamed(o, ZoneNames(r)[i])
                   ELSE LastNamed(b, ZoneNames(r)[i])

\* the keys of the base node the override does not mention keep their values
OtherKeysKept(r, b, O) ==
    \A k \in DOMAIN b.m \ OverrideKeys(b, O) : k \in DOMAIN r.m /\ r.m[k] = b.m[k]

\* C7 as stated: whenever a dns.zone.manager node is overridden with a zones
\* array, the zones of the result are the union by name, each name once,
\* with the override's entry for the names of the override, and the other
\* keys of the node keep their base values.
C7_ZonesUnionAlways ==
    oState = "applied" =>
        \A p \in ZoneOverridden(oBase, oOverrides) :
            /\ ZonesUnion(At(oResult, p).m["zones"],
                          IF HasZonesArray(At(oBase, p)) THEN At(oBase, p).m["zones"]
                          ELSE Arr(<<>>),
                          oOverrides["dns.zone.manager"].m["zones"])
            /\ OtherKeysKept(At(oResult, p), At(oBase, p), oOverrides)

\* C7, amended: when a dns.zone.manager node that has a zones array is
\* overridden with a zones array, the zones of the result are the union by
\* name, each name once, with the override's (last) entry for the names of
\* the override and the base's entry for the others; when the node has no
\* zones array the result has the override's zones array as it is; in both
\* cases the keys the override does not mention keep their base values.
C7_ZonesUnion ==
    oState = "applied" =>
        \A p \in ZoneOverridden(oBase, oOverrides) :
            /\ IF HasZonesArray(At(oBase, p))
               THEN ZonesUnion(At(oResult, p).m["zones"], At(oBase, p).m["zones"],
                               oOverrides["dns.zone.manager"].m["zones"])
               ELSE At(oResult, p).m["zones"] = oOverrides["dns.zone.manager"].m["zones"]
            /\ OtherKeysKept(At(oResult, p), At(oBase, p), oOverrides)

\* a zone manager with zones and a default upstream overridden with a zones
\* array that replaces one base zone and adds another
C7_Witness ==
    /\ oState = "applied"
    /\ \E p \in ZoneOverridden(oBase, oOverrides) :
        /\ HasZonesArray(At(oBase, p))
        /\ "default_upstream" \in DOMAIN At(oBase, p).m \ OverrideKeys(At(oBase, p), oOverrides)
        /\ LET b == NameSet(At(oBase, p).m["zones"])
               o == NameSet(oOverrides["dns.zone.manager"].m["zones"])
           IN b \cap o # {} /\ b \ o # {} /\ o \ b # {}

\* C9: applyOverrides calls leave the tree decoded for the base subtree and
\* the tree each call decodes equal to the base document, the tree a call
\* returns shares no map or slice with either, and a deepCopyMap of a tree
\* is equal to it and shares no map or slice with it.
C9_BaseNeverMutated ==
    /\ oState # "new" => Marshal(heap, oBaseTree) = oBase
    /\ oConfig # Null => Marshal(heap, oConfig) = oBase
    /\ oState = "applied" =>
          Reach(heap, oModified) \cap (Reach(heap, oConfig) \cup Reach(heap, oBaseTree)) = {}
    /\ oCopy # Null =>
          /\ Marshal(heap, oCopy) = oBase
          /\ Reach(heap, oCopy) \cap Reach(heap, oBaseTree) = {}

\* a deep copy of the base tree was made and two applyOverrides calls
\* followed, the last one changing the configuration
C9_Witness ==
    /\ oState = "applied"
    /\ oCalls >= 2
    /\ oCopy # Null
    /\ oResult # oBase
    /\ Cardinality(Reach(heap, oBaseTree)) > 2

(***************************************************************************)
(* Claims about the policy handler.                                        *)
(***************************************************************************)
\* g is the classification of the client address: a matching group of
\* minimum priority, the empty string when no group matches
ClassifiedAs(g) ==
    LET G == MatchingGroups(pCfg.ClientGroups, pIP)
    IN IF pIP = NilIP \/ G = {}
       THEN g = ""
       ELSE /\ g \in G
            /\ \A x \in G : pCfg.ClientGroups[g].Priority <= pCfg.ClientGroups[x].Priority

ZoneEntries(n) ==
    IF HasZonesArray(n)
    THEN {n.m["zones"].s[i] : i \in {j \in DOMAIN ZoneNames(n.m["zones"]) :
                                        /\ "records" \in DOMAIN n.m["zones"].s[j].m
                                        /\ n.m["zones"].s[j].m["records"].t = "obj"}}
    ELSE {}

\* the policy overrides the zones of the zone manager
OverridesZones(policy) ==
    /\ "dns.zone.manager" \in DOMAIN policy.Overrides
    /\ policy.Overrides["dns.zone.manager"].t = "obj"

\* the first response written for the query, the one a client reads
Answers(ev) ==
    LET ws == SelectSeq(ev, LAMBDA e : e.e = "write")
    IN IF ws = <<>>
       THEN <<>>
       ELSE <<[rcode |-> ws[1].rcode, answer |-> ws[1].answer]>>

\* C8: when the override of a policy supplies a zone with the name of a
\* base zone, a client of the policy's group asking for a record of the
\* base zone gets the override's value when the override lists the record
\* and the base value when it does not.
C8_BaseRecordsPreserved ==
    (pState = "served" /\ pQuery.hasQuestion) =>
        \A i \in DOMAIN pCfg.Policies :
            (pOut.clientGroup = pCfg.Policies[i].ClientGroup /\ OverridesZones(pCfg.Policies[i])) =>
                \A bz \in ZoneEntries(pCfg.BaseHandler),
                   oz \in ZoneEntries(pCfg.Policies[i].Overrides["dns.zone.manager"]) :
                    bz.m["zone"] = oz.m["zone"] =>
                        \A k \in DOMAIN bz.m["records"].m :
                            (/\ normalizeQName(k) = normalizeQName(pQuery.name)
                             /\ bz.m["records"].m[k].m["type"].v = pQuery.qtype) =>
                                Answers(pOut.ev) =
                                    <<[rcode |-> "NOERROR",
                                       answer |-> IF k \in DOMAIN oz.m["records"].m
                                                  THEN oz.m["records"].m[k].m["value"].v
                                                  ELSE bz.m["records"].m[k].m["value"].v]>>

\* C10: after a successful Provision every policy's group is bound; a
\* policy without overrides to the very instance of the base subtree, a
\* policy with overrides to an instance that is neither the base subtree
\* nor the subtree of any other policy, whatever its derived document is.
C10_AliasOrFresh ==
    pState \in {"provisioned", "served"} =>
        /\ pBaseHandler \in DOMAIN pInstances
        /\ \A i \in DOMAIN pCfg.Policies :
            LET g == pCfg.Policies[i].ClientGroup
            IN /\ g \in DOMAIN pPolicyTrees
               /\ pPolicyTrees[g] \in DOMAIN pInstances
               /\ IF DOMAIN pCfg.Policies[i].Overrides = {}
                  THEN pPolicyTrees[g] = pBaseHandler
                  ELSE /\ pPolicyTrees[g] # pBaseHandler
                       /\ \A j \in DOMAIN pCfg.Policies \ {i} :
                            pPolicyTrees[pCfg.Policies[j].ClientGroup] # pPolicyTrees[g]

\* two policies with overrides that leave the base document as it is: their
\* subtrees are provisioned like the base subtree
C10_Witness ==
    /\ pState = "provisioned"
    /\ \E i, j \in DOMAIN pCfg.Policies :
        /\ i # j
        /\ DOMAIN pCfg.Policies[i].Overrides # {}
        /\ DOMAIN pCfg.Policies[j].Overrides # {}
        /\ pInstances[pPolicyTrees[pCfg.Policies[i].ClientGroup]] = pInstances[pBaseHandler]
        /\ pInstances[pPolicyTrees[pCfg.Policies[j].ClientGroup]] = pInstances[pBaseHandler]

\* the instances the handler holds: the base and the bound subtrees
HeldInstances == ({pBaseHandler} \cup {pPolicyTrees[g] : g \in DOMAIN pPolicyTrees}) \ {0}

\* C11: in a Cleanup call every instance the handler holds, the base and
\* each bound subtree, has its Cleanup invoked exactly once, also when the
\* base instance backs group entries and whichever instances return an
\* error; nothing else is cleaned up, and the call returns an error exactly
\* when one of the instances did.
C11_CleanupOncePerInstance ==
    pCleanup.done =>
        /\ \A h \in HeldInstances :
              Cardinality({i \in DOMAIN pCleanup.calls : pCleanup.calls[i] = h}) = 1
        /\ \A i \in DOMAIN pCleanup.calls : pCleanup.calls[i] \in HeldInstances
        /\ pCleanup.err <=> (pCleanup.fails \cap HeldInstances # {})

\* a Cleanup of a handler whose base instance backs a group, with a derived
\* subtree for another group, where the base's Cleanup returned an error
C11_Witness ==
    /\ pCleanup.done
    /\ \E g \in DOMAIN pPolicyTrees : pPolicyTrees[g] = pBaseHandler
    /\ \E g \in DOMAIN pPolicyTrees : pPolicyTrees[g] # pBaseHandler
    /\ pBaseHandler \in pCleanup.fails
    /\ Len(pCleanup.calls) >= 2

(***************************************************************************)
(* Claims about the configuration lifecycle.                               *)
(***************************************************************************)
\* the positions of the trace with an event of kind in kinds of generation
\* gen, made during the last call
During(gen, kinds) ==
    {i \in DOMAIN lTrace : i > lLast.from /\ lTrace[i].gen = gen /\ lTrace[i].e \in kinds}

\* the listeners of generation gen that were started and not shut down
Listening(gen) ==
    {i \in DOMAIN lTrace :
        /\ lTrace[i].gen = gen /\ lTrace[i].e = "listen"
        /\ \A j \in DOMAIN lTrace :
              (j > i /\ lTrace[j].gen = gen /\ lTrace[j].e = "shutdown") =>
                  lTrace[j].mod # lTrace[i].mod}

\* the modules provisioned for generation gen, in provisioning order, and
\* the modules of gen cleaned up, in call order
ProvisionedModules(gen) ==
    SelectSeq(lTrace, LAMBDA ev : ev.gen = gen /\ ev.e = "provision")
CleanedModules(gen) ==
    SelectSeq(lTrace, LAMBDA ev : ev.gen = gen /\ ev.e = "cleanup")

\* C12: in a successful Load that replaces a generation, every app of the
\* new generation is provisioned and started before anything of the old
\* generation is stopped.
C12_NewStartedBeforeOldStopped ==
    (lLast.op = "Load" /\ ~lLast.err /\ lLast.old # 0) =>
        \A i \in During(lLast.old, {"stop", "shutdown"}),
           j \in During(lLast.gen, {"provision", "listen"}) :
              lTrace[j].mod[1] \in AppModules => j < i

\* C13: when a Load fails in starting its generation, nothing of that
\* generation is left: no listener of it is listening and every module
\* provisioned for it has been cleaned up.
C13_NothingLeftOfFailedGeneration ==
    (lLast.op = "Load" /\ lLast.err /\ lLast.gen # 0) =>
        /\ Listening(lLast.gen) = {}
        /\ \A i \in DOMAIN ProvisionedModules(lLast.gen) :
              \E j \in DOMAIN CleanedModules(lLast.gen) :
                  CleanedModules(lLast.gen)[j].mod = ProvisionedModules(lLast.gen)[i].mod

\* C14: when a generation is stopped, by Stop or by a Load that replaces
\* it, Cleanup is invoked on every module provisioned for it, in the
\* reverse of the provisioning order.
C14_CleanupInReverseOrder ==
    (lLast.op \in {"Load", "Stop"} /\ lLast.old # 0 /\ lGens[lLast.old].cancelled) =>
        /\ Len(CleanedModules(lLast.old)) = Len(ProvisionedModules(lLast.old))
        /\ \A i \in DOMAIN CleanedModules(lLast.old) :
              CleanedModules(lLast.old)[i].mod =
                  ProvisionedModules(lLast.old)[Len(ProvisionedModules(lLast.old)) + 1 - i].mod

(***************************************************************************)
(* Claims about the upstream resolver.                                     *)
(***************************************************************************)
\* the position of the first target that returned a response, 0 when none did
FirstResponse ==
    IF \E i \in DOMAIN uOutcome : uOutcome[i].kind = "resp"
    THEN CHOOSE i \in DOMAIN uOutcome :
            /\ uOutcome[i].kind = "resp"
            /\ \A j \in 1 .. i - 1 : uOutcome[j].kind # "resp"
    ELSE 0

\* the targets contacted for the query, in order
Contacted == SelectSeq(uOut.ev, LAMBDA ev : ev.e = "exchange")

\* the replies written for the query
Replies == SelectSeq(uOut.ev, LAMBDA ev : ev.e = "write")

\* C15: the targets are tried in the configured order, each only after
\* every earlier one returned an error or a nil response; the one reply is
\* the first response obtained, whatever its rcode, with the id of the
\* request, and no later target is contacted; when every target fails the
\* reply is SERVFAIL with the id of the request.
C15_Failover ==
    uState = "served" =>
        /\ Len(Replies) = 1
        /\ uOut.ev[Len(uOut.ev)].e = "write"
        /\ Replies[1].id = uReq.id
        /\ IF FirstResponse = 0
           THEN /\ Contacted = [i \in DOMAIN uRes.Upstreams |-> EvExchange(uRes.Upstreams[i])]
                /\ Replies[1].rcode = "SERVFAIL"
           ELSE /\ Contacted = [i \in 1 .. FirstResponse |-> EvExchange(uRes.Upstreams[i])]
                /\ Replies[1].rcode = uOutcome[FirstResponse].rcode
                /\ Replies[1].from = uRes.Upstreams[FirstResponse]

\* a query answered by the third target with NXDOMAIN under another id,
\* after an error of the first target and a nil response of the second
C15_Witness ==
    /\ uState = "served"
    /\ Len(uOutcome) = 3
    /\ uOutcome[1].kind = "error"
    /\ uOutcome[2].kind = "nil"
    /\ uOutcome[3] = ExchangeResponse("NXDOMAIN", 8)
    /\ uReq.id = 7

\* C19, for an upstream resolver at the root: a message without a question
\* is answered with FORMERR and no upstream target is contacted.
C19_NoQuestionFormErr ==
    (uState = "served" /\ ~uReq.hasQuestion) =>
        /\ Contacted = <<>>
        /\ Len(Replies) = 1
        /\ Replies[1].rcode = "FORMERR"

(***************************************************************************)
(* Claims about forwarding in the zone manager.                            *)
(***************************************************************************)
\* the zone holds a record for the query name that suits the query type
Compatible(fz, q) ==
    /\ normalizeQName(q.name) \in DOMAIN fz.records
    /\ matchesQType(fz.records[normalizeQName(q.name)], q.qtype)

\* the zone named n was configured with targets of its own
ZoneScoped(n) ==
    /\ ~zmgr.baseZones[n].upstreamConfig.nil
    /\ zmgr.baseZones[n].upstreamConfig.Upstreams # <<>>
    /\ \E i \in DOMAIN zCfg.Zones :
         /\ normalizeQName(zCfg.Zones[i].Zone) = n
         /\ zCfg.Zones[i].Upstream = zmgr.baseZones[n].upstreamConfig

\* the targets of an upstream that respond
Responding(upstream, up) ==
    {upstream.Upstreams[i] : i \in DOMAIN upstream.Upstreams} \cap {t \in up : ValidHostPort(t)}

\* C16: when Resolve is called on a matching zone that has an upstream of
\* its own and no compatible local record, the query ends there: only that
\* zone's targets are contacted afterwards, no other zone is resolved, a
\* reply is written, and the reply is SERVFAIL when none of the targets
\* responds.
C16_ZoneUpstreamHandles ==
    (zState = "served" /\ zQuery.hasQuestion) =>
        \A k \in DOMAIN zOut.ev :
            LET e == zOut.ev[k]
                last == zOut.ev[Len(zOut.ev)]
            IN (/\ e.e = "resolve"
                /\ ZoneScoped(e.zone)
                /\ ~Compatible(zmgr.baseZones[e.zone], zQuery)) =>
                   LET own == zmgr.baseZones[e.zone].upstreamConfig
                   IN /\ \A j \in (k + 1)..Len(zOut.ev) :
                            /\ zOut.ev[j].e # "resolve"
                            /\ zOut.ev[j].e = "exchange" =>
                                 \E i \in DOMAIN own.Upstreams : own.Upstreams[i] = zOut.ev[j].target
                      /\ last.e = "write"
                      /\ Responding(own, zUp) = {} => last.rcode = "SERVFAIL"

\* no zone of the manager handles the query: none matches its name, or the
\* matching ones have neither a compatible record nor a responding target
NoZoneHandles ==
    \A n \in MatchingZones(zmgr.baseZones, normalizeQName(zQuery.name)) :
        /\ ~Compatible(zmgr.baseZones[n], zQuery)
        /\ \/ zmgr.baseZones[n].upstreamConfig.nil
           \/ Responding(zmgr.baseZones[n].upstreamConfig, zUp) = {}

\* the reply of a query handed to the targets of upstream: the response of
\* the first target that responds, SERVFAIL when none does, and NXDOMAIN
\* when there is no target to hand it to
FallThroughReply(upstream, last) ==
    IF ~upstream.nil /\ upstream.Upstreams # <<>>
    THEN IF Responding(upstream, zUp) # {}
         THEN /\ last.rcode = "UPSTREAM"
              /\ \E i \in DOMAIN upstream.Upstreams :
                   /\ upstream.Upstreams[i] = last.answer
                   /\ last.answer \in Responding(upstream, zUp)
                   /\ \A j \in 1..(i - 1) : upstream.Upstreams[j] \notin Responding(upstream, zUp)
         ELSE last.rcode = "SERVFAIL"
    ELSE last.rcode = "NXDOMAIN"

\* C17 as stated: a query that no zone handles is forwarded to the default
\* upstream when the configuration has one, and is answered NXDOMAIN when
\* the configuration has none.
C17_DefaultUpstreamOrNxdomain ==
    (zState = "served" /\ zQuery.hasQuestion /\ NoZoneHandles) =>
        /\ zOut.ev # <<>>
        /\ zOut.ev[Len(zOut.ev)].e = "write"
        /\ FallThroughReply(zCfg.DefaultUpstream, zOut.ev[Len(zOut.ev)])

\* C17: a query that no zone handles is forwarded to the default upstream
\* of the configuration, or to the targets 8.8.8.8:53 and 1.1.1.1:53 when
\* the configuration has no default upstream; the reply is NXDOMAIN only
\* when the configured default upstream has an empty list of targets.
C17_DefaultUpstreamOrBuiltIn ==
    (zState = "served" /\ zQuery.hasQuestion /\ NoZoneHandles) =>
        /\ zOut.ev # <<>>
        /\ zOut.ev[Len(zOut.ev)].e = "write"
        /\ FallThroughReply(IF zCfg.DefaultUpstream.nil
                            THEN Upstream(<<"8.8.8.8:53", "1.1.1.1:53">>)
                            ELSE zCfg.DefaultUpstream,
                            zOut.ev[Len(zOut.ev)])

\* a query outside every zone is forwarded to a built-in target, which
\* responds, by a manager configured without a default upstream
C17_Witness ==
    /\ zState = "served" /\ zQuery.hasQuestion /\ NoZoneHandles
    /\ zCfg.DefaultUpstream.nil
    /\ MatchingZones(zmgr.baseZones, normalizeQName(zQuery.name)) = {}
    /\ zOut.ev = <<EvExchange("8.8.8.8:53"), EvWrite("UPSTREAM", "8.8.8.8:53", 0)>>

(***************************************************************************)
(* Claims about the DNS server.                                            *)
(***************************************************************************)
\* C18: for every message the server was asked to serve, when it has no
\* handler or its handler returned an error the last reply written for the
\* message is SERVFAIL with the message's id, and otherwise the replies are
\* those of the handler alone; ServeDNS leaves the listeners of a started
\* server as they are, so it goes on serving.
C18_ErrorContained ==
    /\ \A k \in DOMAIN sLog :
         LET q == sLog[k]
             writes == SelectSeq(q.ev, LAMBDA e : e.e = "write")
         IN /\ writes # <<>>
            /\ (q.herr \/ ~sServer.handler) =>
                  q.ev[Len(q.ev)] = EvReply("SERVFAIL", q.req.id, "")
            /\ (~q.herr /\ sServer.handler) => Len(writes) = 1
            /\ q.herr => Len(writes) = 2
    /\ sState = "started" => sServer.servers = Listeners(sServer) /\ sServer.servers # <<>>

\* a started server whose handler failed on one message answered the next
C18_Witness ==
    /\ sState = "started"
    /\ Len(sLog) = 2
    /\ sLog[1].herr
    /\ sLog[1].ev[Len(sLog[1].ev)] = EvReply("SERVFAIL", sLog[1].req.id, "")
    /\ ~sLog[2].herr
    /\ sLog[2].ev[Len(sLog[2].ev)].rcode = "NOERROR"

(***************************************************************************)
(* Claims about the module registry.                                       *)
(***************************************************************************)
\* the calls before the k-th that registered the id of the k-th
Earlier(k) == {j \in 1..(k - 1) : rCalls[j].info.ID = rCalls[k].info.ID}

\* C20: after any sequence of RegisterModule calls the registry holds one
\* entry for each id registered and none for any other; a call panics
\* exactly when an earlier call registered its id, and the entry of an id
\* is the info of the first call that registered it.
C20_RegistryUnique ==
    /\ DOMAIN modules = {rCalls[k].info.ID : k \in DOMAIN rCalls}
    /\ \A id \in DOMAIN modules : modules[id].ID = id
    /\ \A k \in DOMAIN rCalls :
         /\ rCalls[k].panic <=> Earlier(k) # {}
         /\ Earlier(k) = {} => modules[rCalls[k].info.ID] = rCalls[k].info

\* a module was registered under an id that held another module: the call
\* panicked and the first module is still the one registered
C20_Witness ==
    \E k \in DOMAIN rCalls :
        /\ rCalls[k].panic
        /\ modules[rCalls[k].info.ID] # rCalls[k].info
        /\ \E j \in Earlier(k) : modules[rCalls[k].info.ID] = rCalls[j].info

(***************************************************************************)
(* Claims about the validation of policies.                                *)
(***************************************************************************)
\* a policy of cfg has no match or an empty client group, names a group
\* that is not configured, or shares its group with another policy
InvalidPolicies(cfg) ==
    \E i \in DOMAIN cfg.Policies :
        \/ ~cfg.Policies[i].Match
        \/ cfg.Policies[i].ClientGroup = ""
        \/ cfg.Policies[i].ClientGroup \notin DOMAIN cfg.ClientGroups
        \/ \E j \in DOMAIN cfg.Policies :
             j # i /\ cfg.Policies[j].ClientGroup = cfg.Policies[i].ClientGroup

\* C21: Provision of a handler with an invalid policy returns an error and
\* has loaded no subtree, neither the base nor one of a group, and has not
\* compiled the classifier.
C21_ValidationBeforeBuilding ==
    (pState # "new" /\ InvalidPolicies(pCfg)) =>
        /\ pState = "failed"
        /\ pInstances = <<>>
        /\ pBaseHandler = 0
        /\ pPolicyTrees = EmptyMap
        /\ pCompiled = EmptyMap

\* Provision failed, with nothing loaded, on two policies for one group
\* over a base handler and client groups that are valid
C21_Witness ==
    /\ pState = "failed"
    /\ pCfg.BaseHandler = BZoneA
    /\ pCfg.Policies = <<Policy("internal", EmptyMap), Policy("internal", OZones)>>
    /\ pInstances = <<>>
    /\ pPolicyTrees = EmptyMap

(***************************************************************************)
(* Claims about queries served in parallel.                                *)
(***************************************************************************)
\* what PolicyHandler.ServeDNS, run on its own from its first statement to
\* its return, can do with the query of the call c
Sequentially(c) ==
    {Routed(pInstances,
            SelectHandler(pPolicyTrees, pBaseHandler, ClassifyIP(pCompiled, w[1], c.ip)),
            ClassifyIP(pCompiled, w[1], c.ip), c.q, w[2], dUp, dWfail) :
        w \in {v \in SortedOrders(pCompiled) \X UNION {ZoneOrders(pInstances[i].baseZones) :
                                                         i \in DOMAIN pInstances} :
                 v[2] \in ZoneOrders(
                     pInstances[SelectHandler(pPolicyTrees, pBaseHandler,
                                              ClassifyIP(pCompiled, v[1], c.ip))].baseZones)}}

Writes(c) == SelectSeq(c.ev, LAMBDA e : e.e = "write")

ExactGroups(groups, ip) ==
    {n \in DOMAIN groups :
        \E i \in DOMAIN groups[n].Sources :
            ~groups[n].Sources[i].cidr /\ SourceCovers(groups[n].Sources[i], ip)}

\* C23 as stated: a client IP that is an exact-IP source of some group is
\* classified as a group that lists it as an exact IP.
C23_ExactGroupWins ==
    (cState = "provisioned" /\ cIP # NilIP /\ ExactGroups(cGroups, cIP) # {}) =>
        cResult \in ExactGroups(cGroups, cIP)

\* C23: within the group a query is classified as, an exact IP equal to
\* the client IP is what matched, whether or not a network of that group
\* contains the IP too; across groups the priority decides, so a client IP
\* that is an exact-IP source of a group is classified as that group
\* unless another group that matches it, by IP or by network, has a
\* priority that is not larger.
C23_ExactFirstWithinGroup ==
    (cState = "provisioned" /\ cIP # NilIP /\ ExactGroups(cGroups, cIP) # {}) =>
        /\ cResult # ""
        /\ cResult \in ExactGroups(cGroups, cIP) <=> cVia = "ip"
        /\ cResult \notin ExactGroups(cGroups, cIP) =>
              /\ cVia = "cidr"
              /\ \A g \in ExactGroups(cGroups, cIP) :
                    cGroups[cResult].Priority <= cGroups[g].Priority
        /\ \A g \in ExactGroups(cGroups, cIP) :
              (\A h \in MatchingGroups(cGroups, cIP) \ {g} :
                    cGroups[h].Priority > cGroups[g].Priority) => cResult = g

\* the client IP is an exact IP of the group it was classified as, inside
\* a network of that group, and a group of larger priority lists it too
C23_Witness ==
    /\ cState = "provisioned"
    /\ cIP # NilIP
    /\ cResult \in ExactGroups(cGroups, cIP)
    /\ cVia = "ip"
    /\ \E i \in DOMAIN cGroups[cResult].Sources :
          cGroups[cResult].Sources[i].cidr /\ SourceCovers(cGroups[cResult].Sources[i], cIP)
    /\ \E g \in ExactGroups(cGroups, cIP) : cGroups[g].Priority > cGroups[cResult].Priority

(***************************************************************************)
(* Claims about the compilation of the classifier.                         *)
(***************************************************************************)
\* a source of the configuration is not a valid IP or CIDR (the empty
\* string is not a valid IP)
InvalidSources(groups) ==
    \E n \in DOMAIN groups : \E i \in DOMAIN groups[n].Sources : ~groups[n].Sources[i].valid

\* the compiled entry of a group holds its sources: the IPs in ips, the
\* CIDR blocks in networks, each in the order of the configuration
HoldsSources(cg, g) ==
    /\ cg.priority = g.Priority
    /\ Len(cg.ips) + Len(cg.networks) = Len(g.Sources)
    /\ LET ips == SelectSeq(g.Sources, LAMBDA s : ~s.cidr)
           nets == SelectSeq(g.Sources, LAMBDA s : s.cidr)
       IN /\ cg.ips = [i \in DOMAIN ips |-> ips[i].ip]
          /\ cg.networks = [i \in DOMAIN nets |-> ParseCIDR(nets[i])]

\* C24 as stated: Provision of a classifier fails exactly when no group is
\* configured, a source is invalid, a group has no sources or a group has
\* a negative priority, and on success the compiled entries hold the
\* sources.
C24_ProvisionRejects ==
    cState # "new" =>
        /\ cState = "failed" <=>
              \/ DOMAIN cGroups = {}
              \/ InvalidSources(cGroups)
              \/ \E n \in DOMAIN cGroups : cGroups[n].Sources = <<>>
              \/ \E n \in DOMAIN cGroups : cGroups[n].Priority < 0
        /\ cState = "provisioned" =>
              /\ DOMAIN compiled = DOMAIN cGroups
              /\ \A n \in DOMAIN cGroups : HoldsSources(compiled[n], cGroups[n])

\* C24: Provision of a classifier fails exactly when no group is
\* configured or a source is invalid; a group without sources or with a
\* negative priority is compiled like any other (it is the policy handler
\* that rejects such a group, before it builds the classifier); on success
\* every group has a compiled entry that holds exactly its sources.
C24_ProvisionCompiles ==
    cState # "new" =>
        /\ cState = "failed" <=> (DOMAIN cGroups = {} \/ InvalidSources(cGroups))
        /\ cState = "provisioned" =>
              /\ DOMAIN compiled = DOMAIN cGroups
              /\ \A n \in DOMAIN cGroups : HoldsSources(compiled[n], cGroups[n])
        /\ ~validateConfiguration([BaseHandler |-> Obj("handler" :> Str("dns.zone.manager")),
                                   ClientGroups |-> cGroups, Policies |-> <<>>])
              <=> \/ DOMAIN cGroups = {}
                  \/ InvalidSources(cGroups)
                  \/ \E n \in DOMAIN cGroups : cGroups[n].Sources = <<>>
                  \/ \E n \in DOMAIN cGroups : cGroups[n].Priority < 0

\* a classifier was provisioned with a group without sources and a group
\* of negative priority, and holds a compiled entry for each
C24_Witness ==
    /\ cState = "provisioned"
    /\ \E n \in DOMAIN cGroups : cGroups[n].Sources = <<>> /\ compiled[n].ips = <<>>
    /\ \E n \in DOMAIN cGroups :
          /\ cGroups[n].Priority < 0
          /\ compiled[n].priority < 0
          /\ Len(compiled[n].ips) = 1 /\ Len(compiled[n].networks) = 1

(***************************************************************************)
(* Claims about upstream targets that are not of host:port form.           *)
(***************************************************************************)
Malformed(targets) == \E i \in DOMAIN targets : targets[i] = "no-port"

\* an upstream of the zone manager's configuration, of a zone or the
\* default one, has a malformed target
MalformedInManager(cfg) ==
    \/ ~cfg.DefaultUpstream.nil /\ Malformed(cfg.DefaultUpstream.Upstreams)
    \/ \E i \in DOMAIN cfg.Zones :
         ~cfg.Zones[i].Upstream.nil /\ Malformed(cfg.Zones[i].Upstream.Upstreams)

\* no exchange of the events ev was with a malformed target
NoneMalformed(ev) == \A i \in DOMAIN ev : ev[i].e = "exchange" => ev[i].target # "no-port"

ResolvedZone == zmgr.baseZones[zOut.zone]
ResolvedName == normalizeQName(zQuery.name)
Resolved == zState = "resolved" /\ zQuery.hasQuestion
InZone == Match(ResolvedZone, ResolvedName)
Held == ResolvedName \in DOMAIN ResolvedZone.records
HeldRecord == ResolvedZone.records[ResolvedName]

\* the zone answered from its record: one answer with the value of the
\* record, handled, and no upstream exchange
LocalAnswer ==
    /\ zOut.handled
    /\ Len(zOut.ev) = 2
    /\ zOut.ev[2].e = "write" /\ zOut.ev[2].rcode = "NOERROR"
    /\ Held /\ zOut.ev[2].answer = HeldRecord.Value

\* the zone replied SERVFAIL itself: handled, no answer, no upstream exchange
LocalServfail ==
    /\ zOut.handled
    /\ zOut.ev = <<EvResolve(ResolvedZone.zoneName, "default"), EvWrite("SERVFAIL", "", 0)>>

StandardTypes == {"A", "AAAA", "CNAME", "TXT"}

\* the query type is ANY, or one of the four record types and the type of
\* the record as it is written in the configuration
TypeFits(record, qtype) ==
    qtype = "ANY" \/ (qtype \in StandardTypes /\ record.Type = qtype)

\* the record can be made into a resource record
Encodable(record) ==
    \/ ToUpper(record.Type) = "A" /\ ParsesIPv4(record.Value)
    \/ ToUpper(record.Type) = "AAAA" /\ ParsesIPv6(record.Value)
    \/ ToUpper(record.Type) \in {"CNAME", "TXT"}

\* nothing was written and no upstream was contacted
OnlyResolved == zOut.ev = <<EvResolve(ResolvedZone.zoneName, "default")>>

\* C26 as stated: a zone answers from its records exactly when the query
\* name is in the zone, a record exists under it and the type of the record
\* equals the query type or the query type is ANY; a name outside the zone
\* gives handled = false with nothing written
C26_LocalIffTypeEqual ==
    Resolved =>
        /\ LocalAnswer <=>
              (InZone /\ Held /\ (HeldRecord.Type = zQuery.qtype \/ zQuery.qtype = "ANY"))
        /\ ~InZone => ~zOut.handled /\ OnlyResolved

\* C26: a zone answers from its records exactly when the query name is in
\* the zone, a record exists under it, the query type is ANY or is one of A,
\* AAAA, CNAME, TXT and equal to the type of the record, and the record can
\* be encoded; a name outside the zone gives handled = false with nothing
\* written
C26_LocalIffFitsAndEncodable ==
    Resolved =>
        /\ LocalAnswer <=>
              (InZone /\ Held /\ TypeFits(HeldRecord, zQuery.qtype) /\ Encodable(HeldRecord))
        /\ ~InZone => ~zOut.handled /\ OnlyResolved

C26_Witness ==
    /\ Resolved /\ LocalAnswer
    /\ HeldRecord.Type = "A" /\ zQuery.qtype = "A"
    /\ zOut.ev[2].answer = "192.0.2.2"

\* C27 as stated: a matching record that cannot be encoded gives a SERVFAIL
\* reply with handled = true and no forwarding, for every query type
C27_ServfailEveryType ==
    Resolved /\ InZone /\ Held /\ ~Encodable(HeldRecord) => LocalServfail

\* C27: a record under the query name that cannot be encoded gives a
\* SERVFAIL reply with handled = true and no forwarding when the query type
\* is ANY or the standard type of the record; for any other query type the
\* zone writes no SERVFAIL of its own
C27_ServfailWhenTypeFits ==
    Resolved /\ InZone /\ Held /\ ~Encodable(HeldRecord) =>
        IF TypeFits(HeldRecord, zQuery.qtype)
        THEN LocalServfail
        ELSE \A k \in DOMAIN zOut.ev :
                 zOut.ev[k].e = "write" => zOut.ev[k].rcode = "UPSTREAM"

C27_Witness ==
    /\ Resolved /\ InZone /\ Held
    /\ HeldRecord = Rec("A", "not-an-ip") /\ zQuery.qtype = "A"
    /\ LocalServfail

\* the zone was provisioned from configuration entries without an upstream
ConfiguredWithoutUpstream ==
    /\ \E i \in DOMAIN zCfg.Zones : normalizeQName(zCfg.Zones[i].Zone) = zOut.zone
    /\ \A i \in DOMAIN zCfg.Zones :
           normalizeQName(zCfg.Zones[i].Zone) = zOut.zone => zCfg.Zones[i].Upstream.nil

\* the query is for the zone and no record of the zone answers it
NotAnsweredLocally ==
    InZone /\ ~(Held /\ TypeFits(HeldRecord, zQuery.qtype))

\* the exchanges of a trace, in order
RECURSIVE Exchanged(_)
Exchanged(ev) ==
    IF ev = <<>> THEN <<>>
    ELSE IF Head(ev).e = "exchange" THEN <<Head(ev).target>> \o Exchanged(Tail(ev))
    ELSE Exchanged(Tail(ev))

\* the targets of a list up to and with the first that responds
RECURSIVE UpToFirstResponding(_, _)
UpToFirstResponding(targets, up) ==
    IF targets = <<>> THEN <<>>
    ELSE IF Head(targets) \in up THEN <<Head(targets)>>
    ELSE <<Head(targets)>> \o UpToFirstResponding(Tail(targets), up)

StopConfigEnds(gen) ==
    {i \in DOMAIN lTrace : lTrace[i].e = "cancel" /\ lTrace[i].gen = gen}

\* C30: after any sequence of Load and Stop calls, when no call holds the
\* configuration lock, the live pointer is nil or names a generation whose
\* apps were all started and none of which was stopped, and stopConfig has
\* been applied at most once to each generation.
C30_LiveGenerationStartedNotStopped ==
    /\ lCurrent # 0 =>
          /\ ~lGens[lCurrent].cancelled
          /\ \A i \in DOMAIN lTrace :
                lTrace[i].gen = lCurrent => lTrace[i].e \notin {"stop", "shutdown", "cancel"}
          /\ \A a \in DOMAIN lGens[lCurrent].apps :
                \A s \in DOMAIN lGens[lCurrent].apps[a] : lGens[lCurrent].apps[a][s].handler
    /\ \A g \in DOMAIN lGens : Cardinality(StopConfigEnds(g)) <= 1

====
